---- MODULE Spec2Model ----
(***************************************************************************)
(* Hexadeck: the transformation operators, the breadth-first reachability  *)
(* search, and the round / economy state machine driven by the frame loop  *)
(* of src/src/main.py.                                                     *)
(*                                                                         *)
(* Hexagram codes are 6-character strings over "0"/"1", as in the source.  *)
(* Python's None is modelled by None (-1) for numbers and indices and by   *)
(* NoHex ("") for a missing hexagram.                                      *)
(***************************************************************************)
EXTENDS Integers, Sequences, FiniteSets, TLC

None == -1
NoHex == ""

\* ---------------------------------------------------------------------
\* Program constants
\* ---------------------------------------------------------------------
transformation_limit == 10
BUY_START_COST == 6
BUY_COST_STEP == 6
HINT_COST_IP == 1
OPTIMAL_BONUS_IP == 1
HINT_PENALTY_IP == 1
SUCCESS_AWARD_MIN_IP == 1
DECK_SIZE == 64

\* ---------------------------------------------------------------------
\* String helpers (Python slicing on 6-character strings)
\* ---------------------------------------------------------------------
Flipc(c) == IF c = "1" THEN "0" ELSE "1"

RECURSIVE Reversed(_)
Reversed(s) == IF Len(s) = 0 THEN "" ELSE Reversed(Tail(s)) \o Head(s)

RECURSIVE Complement(_)
Complement(s) == IF Len(s) = 0 THEN "" ELSE Flipc(Head(s)) \o Complement(Tail(s))

\* ---------------------------------------------------------------------
\* Transformation functions
\* ---------------------------------------------------------------------
hu_gua(hexagram6) == SubSeq(hexagram6, 2, 4) \o SubSeq(hexagram6, 3, 5)

cuo_gua(hexagram6) == Complement(hexagram6)

\* Variant of cuo_ba_gua that inverts the upper trigram instead of the
\* lower one.
cuo_ba_gua_upper(hexagram6) == SubSeq(hexagram6, 1, 3) \o Complement(SubSeq(hexagram6, 4, 6))

cuo_ba_gua(hexagram6) == Complement(SubSeq(hexagram6, 1, 3)) \o SubSeq(hexagram6, 4, 6)

zong_gua(hexagram6) == Reversed(hexagram6)

\* Variant of yi_wei_gua that moves the last three bits to the front.
yi_wei_gua_by_three(hexagram6) == SubSeq(hexagram6, 4, 6) \o SubSeq(hexagram6, 1, 3)

yi_wei_gua(hexagram6) == SubSeq(hexagram6, 6, 6) \o SubSeq(hexagram6, 1, 5)

jiao_gua(hexagram6) == SubSeq(hexagram6, 4, 6) \o SubSeq(hexagram6, 1, 3)

chong_ba_gua(hexagram6) == SubSeq(hexagram6, 1, 3) \o SubSeq(hexagram6, 1, 3)

dui_chen_ba_gua(hexagram6) == SubSeq(hexagram6, 1, 3) \o Reversed(SubSeq(hexagram6, 1, 3))

\* Variant of zong_ba_gua that rotates the lower trigram instead of
\* reversing it.
zong_ba_gua_rotated(hexagram6) ==
    SubSeq(hexagram6, 3, 3) \o SubSeq(hexagram6, 1, 2) \o SubSeq(hexagram6, 4, 6)

zong_ba_gua(hexagram6) == Reversed(SubSeq(hexagram6, 1, 3)) \o SubSeq(hexagram6, 4, 6)

shift_hexagram(h) == yi_wei_gua(h)
flip_hexagram(h) == zong_gua(h)
swap_hexagram(h) == jiao_gua(h)
unhide_hexagram(h) == hu_gua(h)
invert_hexagram(h) == cuo_gua(h)
invert_lower_trigram(h) == cuo_ba_gua(h)
flip_lower_trigram(h) == zong_ba_gua(h)
mirror_onto_upper_trigram(h) == dui_chen_ba_gua(h)
copy_onto_upper_trigram(h) == chong_ba_gua(h)

\* TRANSFORMATIONS[i]["short"], 0-based as in the source list.
TRANSFORMATIONS ==
    [i \in 0..8 |->
        CASE i = 0 -> [short |-> "SHIFT", scope |-> "whole"]
          [] i = 1 -> [short |-> "FLIP", scope |-> "whole"]
          [] i = 2 -> [short |-> "SWAP", scope |-> "whole"]
          [] i = 3 -> [short |-> "UNHIDE", scope |-> "whole"]
          [] i = 4 -> [short |-> "INVERT", scope |-> "whole"]
          [] i = 5 -> [short |-> "INVERT v", scope |-> "lower"]
          [] i = 6 -> [short |-> "FLIP v", scope |-> "lower"]
          [] i = 7 -> [short |-> "MIRROR ^", scope |-> "upper"]
          [] i = 8 -> [short |-> "COPY ^", scope |-> "upper"]]

\* TRANSFORMATIONS[i]["func"](h)
func(i, h) ==
    CASE i = 0 -> shift_hexagram(h)
      [] i = 1 -> flip_hexagram(h)
      [] i = 2 -> swap_hexagram(h)
      [] i = 3 -> unhide_hexagram(h)
      [] i = 4 -> invert_hexagram(h)
      [] i = 5 -> invert_lower_trigram(h)
      [] i = 6 -> flip_lower_trigram(h)
      [] i = 7 -> mirror_onto_upper_trigram(h)
      [] i = 8 -> copy_onto_upper_trigram(h)

FREEBIE_SHORTS == {"SHIFT", "INVERT v", "MIRROR ^"}

\* ---------------------------------------------------------------------
\* Hexagram catalog: the keys of the shipped data file (all 64 six-bit
\* codes); load_data stores what it reads in HEXAGRAM_DATA
\* ---------------------------------------------------------------------
BitChars == {"0", "1"}

FullCatalog ==
    {a \o b \o c \o d \o e \o f :
        a \in BitChars, b \in BitChars, c \in BitChars,
        d \in BitChars, e \in BitChars, f \in BitChars}

\* ---------------------------------------------------------------------
\* Reachability engine: shortest_path_with_allowed
\* ---------------------------------------------------------------------
\* One iteration of "for k, idx in enumerate(allowed_indices)" for the
\* dequeued node cur at depth d; st carries dist, first_move, q,
\* best_distance and optimal_first_moves.
bfs_visit(st, cur, d, idx, start_binary, goal_binary) ==
    LET nxt == func(idx, cur)
        fm == IF cur = start_binary THEN idx ELSE st.first_move[cur]
    IN  IF nxt \notin DOMAIN st.dist
        THEN LET best1 == IF nxt = goal_binary /\ st.best_distance = None
                          THEN d + 1 ELSE st.best_distance
                 opt1 == IF nxt = goal_binary /\ fm # None
                         THEN st.optimal_first_moves \cup {fm}
                         ELSE st.optimal_first_moves
                 q1 == IF best1 = None \/ (d + 1) <= best1
                       THEN Append(st.q, nxt) ELSE st.q
             IN  [dist |-> (nxt :> (d + 1)) @@ st.dist,
                  first_move |-> (nxt :> fm) @@ st.first_move,
                  q |-> q1,
                  best_distance |-> best1,
                  optimal_first_moves |-> opt1]
        ELSE IF nxt = goal_binary /\ st.dist[nxt] = d + 1 /\ fm # None
        THEN [st EXCEPT !.optimal_first_moves = @ \cup {fm}]
        ELSE st

RECURSIVE bfs_for(_, _, _, _, _, _, _)
bfs_for(st, cur, d, k, allowed_indices, start_binary, goal_binary) ==
    IF k > Len(allowed_indices) THEN st
    ELSE bfs_for(bfs_visit(st, cur, d, allowed_indices[k], start_binary, goal_binary),
                 cur, d, k + 1, allowed_indices, start_binary, goal_binary)

\* Variant of the while loop that takes the newest queue entry (q.pop())
\* instead of the oldest (q.popleft()).
RECURSIVE bfs_while_lifo(_, _, _, _)
bfs_while_lifo(st, allowed_indices, start_binary, goal_binary) ==
    IF Len(st.q) = 0 THEN <<st.best_distance, st.optimal_first_moves>>
    ELSE LET cur == st.q[Len(st.q)]
             d == st.dist[cur]
             popped == [st EXCEPT !.q = SubSeq(st.q, 1, Len(st.q) - 1)]
         IN  IF st.best_distance # None /\ d >= st.best_distance
             THEN bfs_while_lifo(popped, allowed_indices, start_binary, goal_binary)
             ELSE bfs_while_lifo(bfs_for(popped, cur, d, 1, allowed_indices,
                                         start_binary, goal_binary),
                                 allowed_indices, start_binary, goal_binary)

RECURSIVE bfs_while(_, _, _, _)
bfs_while(st, allowed_indices, start_binary, goal_binary) ==
    IF Len(st.q) = 0 THEN <<st.best_distance, st.optimal_first_moves>>
    ELSE LET cur == Head(st.q)
             d == st.dist[cur]
             popped == [st EXCEPT !.q = Tail(st.q)]
         IN  IF st.best_distance # None /\ d >= st.best_distance
             THEN bfs_while(popped, allowed_indices, start_binary, goal_binary)
             ELSE bfs_while(bfs_for(popped, cur, d, 1, allowed_indices,
                                    start_binary, goal_binary),
                            allowed_indices, start_binary, goal_binary)

\* Variant of shortest_path_with_allowed without the start == goal shortcut.
shortest_path_no_shortcut(start_binary, goal_binary, allowed_indices) ==
    bfs_while([dist |-> (start_binary :> 0),
               first_move |-> (start_binary :> None),
               q |-> <<start_binary>>,
               best_distance |-> None,
               optimal_first_moves |-> {}],
              allowed_indices, start_binary, goal_binary)

\* Returns <<distance or None, set of first-move indices>>.
shortest_path_with_allowed(start_binary, goal_binary, allowed_indices) ==
    IF start_binary = goal_binary THEN <<0, {}>>
    ELSE bfs_while([dist |-> (start_binary :> 0),
                    first_move |-> (start_binary :> None),
                    q |-> <<start_binary>>,
                    best_distance |-> None,
                    optimal_first_moves |-> {}],
                   allowed_indices, start_binary, goal_binary)

\* ---------------------------------------------------------------------
\* Bounds of the model (inputs of the environment)
\* ---------------------------------------------------------------------
\* Moves of a round during which the player may press any usable button;
\* later moves follow the live guidance or leave the tip unchanged.
FreeMoves == 0
\* Hints the player buys per round.
MaxHintsPerRound == 1
\* Number of operators of BuyPool the player may buy.
NumBuyable == 2
\* The player goes on to a further round of a run only while the run's
\* total of moves is at most this, and only from a round in which a move
\* was made.
MaxRunMoves == 6
\* The player opens the help or deck popup only before this many moves of
\* a round have been made (and closes it at any time).
PopupMoves == 1

\* The codes generate_hexagram() produces at the first toss of a run (the
\* toss is repeated until it hits HEXAGRAM_DATA), and
\* the codes random.choice draws as goals.
StartCodes == {"000000"} \cap FullCatalog
GoalCodes == {"001100", "001011", "011010"} \cap FullCatalog
\* A data file with two codes only, each one operator away from the other.
SmallCatalog == {"000000", "111000"}
\* The goals drawn under a catalog: any code of the two-code catalog,
\* a code of GoalCodes otherwise.
GoalSample(data) == IF data = SmallCatalog THEN data ELSE GoalCodes
BuyPool == <<1, 4, 3, 2, 6, 8>>
BuyChoices == {BuyPool[i] : i \in 1..NumBuyable}

\* ---------------------------------------------------------------------
\* Module-level state of main.py
\* ---------------------------------------------------------------------
VARIABLES
    HEXAGRAM_DATA, \* the keys of the catalog load_data has read
    game_started, hexagram_chain, goal_hexagram, locked, round_failed,
    used_hexagrams, collected_hexagrams,
    TRANSFORM_UNLOCKED, BUY_COST_CURRENT, SHOP_VISIBLE, INSIGHT_BALANCE,
    HINTS_ENABLED, HINTS_COUNT_THIS_ROUND, RUN_HINTS_COUNT,
    pending_change,
    WIN_SEQ_ACTIVE, SEQ_OUTCOME, POPUP_VISIBLE, AWARDS_GRANTED, GOAL2START,
    shortest_path_length, ROUND_OPTIMAL_DIST, LIVE_POSSIBLE_DIST,
    optimal_next_buttons,
    OPTIMAL_STREAK_CURR, OPTIMAL_STREAK_BEST,
    RUN_TOTAL_MOVES, RUN_TOTAL_OPTIMAL, RUN_TOTAL_INSIGHT, RUN_TOTAL_SPENT,
    LAST_ROUND_INSIGHT,
    deck_popup_visible, help_popup_visible,
    run_goals,  \* history: the goals drawn by reset_game since the last full reset
    sp_start, sp_goal, sp_allowed, \* arguments of a shortest_path_with_allowed call
    sp_result,                     \* its result (<<>> before the call)
    op_idx,  \* index in TRANSFORMATIONS of an operator applied on its own
    op_chain \* the code it is applied to, then the results of TRANSFORMATIONS[op_idx]["func"]

vars == <<HEXAGRAM_DATA, game_started, hexagram_chain, goal_hexagram, locked, round_failed,
          used_hexagrams, collected_hexagrams,
          TRANSFORM_UNLOCKED, BUY_COST_CURRENT, SHOP_VISIBLE, INSIGHT_BALANCE,
          HINTS_ENABLED, HINTS_COUNT_THIS_ROUND, RUN_HINTS_COUNT,
          pending_change,
          WIN_SEQ_ACTIVE, SEQ_OUTCOME, POPUP_VISIBLE, AWARDS_GRANTED, GOAL2START,
          shortest_path_length, ROUND_OPTIMAL_DIST, LIVE_POSSIBLE_DIST,
          optimal_next_buttons,
          OPTIMAL_STREAK_CURR, OPTIMAL_STREAK_BEST,
          RUN_TOTAL_MOVES, RUN_TOTAL_OPTIMAL, RUN_TOTAL_INSIGHT, RUN_TOTAL_SPENT,
          LAST_ROUND_INSIGHT,
          deck_popup_visible, help_popup_visible, run_goals,
          sp_start, sp_goal, sp_allowed, sp_result, op_idx, op_chain>>

gameVars == <<HEXAGRAM_DATA, game_started, hexagram_chain, goal_hexagram, locked, round_failed,
              used_hexagrams, collected_hexagrams,
              TRANSFORM_UNLOCKED, BUY_COST_CURRENT, SHOP_VISIBLE, INSIGHT_BALANCE,
              HINTS_ENABLED, HINTS_COUNT_THIS_ROUND, RUN_HINTS_COUNT,
              pending_change,
              WIN_SEQ_ACTIVE, SEQ_OUTCOME, POPUP_VISIBLE, AWARDS_GRANTED, GOAL2START,
              shortest_path_length, ROUND_OPTIMAL_DIST, LIVE_POSSIBLE_DIST,
              optimal_next_buttons,
              OPTIMAL_STREAK_CURR, OPTIMAL_STREAK_BEST,
              RUN_TOTAL_MOVES, RUN_TOTAL_OPTIMAL, RUN_TOTAL_INSIGHT, RUN_TOTAL_SPENT,
              LAST_ROUND_INSIGHT,
              deck_popup_visible, help_popup_visible, run_goals>>

spVars == <<sp_start, sp_goal, sp_allowed, sp_result>>

opVars == <<op_idx, op_chain>>

\* The globals as one record, so that handlers compose as functions.
Globals ==
    [HEXAGRAM_DATA |-> HEXAGRAM_DATA,
     game_started |-> game_started, hexagram_chain |-> hexagram_chain,
     goal_hexagram |-> goal_hexagram, locked |-> locked,
     round_failed |-> round_failed, used_hexagrams |-> used_hexagrams,
     collected_hexagrams |-> collected_hexagrams,
     TRANSFORM_UNLOCKED |-> TRANSFORM_UNLOCKED,
     BUY_COST_CURRENT |-> BUY_COST_CURRENT, SHOP_VISIBLE |-> SHOP_VISIBLE,
     INSIGHT_BALANCE |-> INSIGHT_BALANCE, HINTS_ENABLED |-> HINTS_ENABLED,
     HINTS_COUNT_THIS_ROUND |-> HINTS_COUNT_THIS_ROUND,
     RUN_HINTS_COUNT |-> RUN_HINTS_COUNT, pending_change |-> pending_change,
     WIN_SEQ_ACTIVE |-> WIN_SEQ_ACTIVE, SEQ_OUTCOME |-> SEQ_OUTCOME,
     POPUP_VISIBLE |-> POPUP_VISIBLE, AWARDS_GRANTED |-> AWARDS_GRANTED,
     GOAL2START |-> GOAL2START,
     shortest_path_length |-> shortest_path_length,
     ROUND_OPTIMAL_DIST |-> ROUND_OPTIMAL_DIST,
     LIVE_POSSIBLE_DIST |-> LIVE_POSSIBLE_DIST,
     optimal_next_buttons |-> optimal_next_buttons,
     OPTIMAL_STREAK_CURR |-> OPTIMAL_STREAK_CURR,
     OPTIMAL_STREAK_BEST |-> OPTIMAL_STREAK_BEST,
     RUN_TOTAL_MOVES |-> RUN_TOTAL_MOVES, RUN_TOTAL_OPTIMAL |-> RUN_TOTAL_OPTIMAL,
     RUN_TOTAL_INSIGHT |-> RUN_TOTAL_INSIGHT, RUN_TOTAL_SPENT |-> RUN_TOTAL_SPENT,
     LAST_ROUND_INSIGHT |-> LAST_ROUND_INSIGHT,
     deck_popup_visible |-> deck_popup_visible,
     help_popup_visible |-> help_popup_visible, run_goals |-> run_goals]

Commit(g) ==
    /\ HEXAGRAM_DATA' = g.HEXAGRAM_DATA
    /\ game_started' = g.game_started
    /\ hexagram_chain' = g.hexagram_chain
    /\ goal_hexagram' = g.goal_hexagram
    /\ locked' = g.locked
    /\ round_failed' = g.round_failed
    /\ used_hexagrams' = g.used_hexagrams
    /\ collected_hexagrams' = g.collected_hexagrams
    /\ TRANSFORM_UNLOCKED' = g.TRANSFORM_UNLOCKED
    /\ BUY_COST_CURRENT' = g.BUY_COST_CURRENT
    /\ SHOP_VISIBLE' = g.SHOP_VISIBLE
    /\ INSIGHT_BALANCE' = g.INSIGHT_BALANCE
    /\ HINTS_ENABLED' = g.HINTS_ENABLED
    /\ HINTS_COUNT_THIS_ROUND' = g.HINTS_COUNT_THIS_ROUND
    /\ RUN_HINTS_COUNT' = g.RUN_HINTS_COUNT
    /\ pending_change' = g.pending_change
    /\ WIN_SEQ_ACTIVE' = g.WIN_SEQ_ACTIVE
    /\ SEQ_OUTCOME' = g.SEQ_OUTCOME
    /\ POPUP_VISIBLE' = g.POPUP_VISIBLE
    /\ AWARDS_GRANTED' = g.AWARDS_GRANTED
    /\ GOAL2START' = g.GOAL2START
    /\ shortest_path_length' = g.shortest_path_length
    /\ ROUND_OPTIMAL_DIST' = g.ROUND_OPTIMAL_DIST
    /\ LIVE_POSSIBLE_DIST' = g.LIVE_POSSIBLE_DIST
    /\ optimal_next_buttons' = g.optimal_next_buttons
    /\ OPTIMAL_STREAK_CURR' = g.OPTIMAL_STREAK_CURR
    /\ OPTIMAL_STREAK_BEST' = g.OPTIMAL_STREAK_BEST
    /\ RUN_TOTAL_MOVES' = g.RUN_TOTAL_MOVES
    /\ RUN_TOTAL_OPTIMAL' = g.RUN_TOTAL_OPTIMAL
    /\ RUN_TOTAL_INSIGHT' = g.RUN_TOTAL_INSIGHT
    /\ RUN_TOTAL_SPENT' = g.RUN_TOTAL_SPENT
    /\ LAST_ROUND_INSIGHT' = g.LAST_ROUND_INSIGHT
    /\ deck_popup_visible' = g.deck_popup_visible
    /\ help_popup_visible' = g.help_popup_visible
    /\ run_goals' = g.run_goals
    /\ UNCHANGED spVars
    /\ UNCHANGED opVars

\* Module-level initial values (before the first toss).
InitGlobals ==
    /\ game_started = FALSE
    /\ hexagram_chain = <<>>
    /\ goal_hexagram = NoHex
    /\ locked = FALSE
    /\ round_failed = FALSE
    /\ used_hexagrams = {}
    /\ collected_hexagrams = {}
    /\ TRANSFORM_UNLOCKED = [i \in 0..8 |-> TRANSFORMATIONS[i].short \in FREEBIE_SHORTS]
    /\ BUY_COST_CURRENT = BUY_START_COST
    /\ SHOP_VISIBLE = FALSE
    /\ INSIGHT_BALANCE = 0
    /\ HINTS_ENABLED = FALSE
    /\ HINTS_COUNT_THIS_ROUND = 0
    /\ RUN_HINTS_COUNT = 0
    /\ pending_change = None
    /\ WIN_SEQ_ACTIVE = FALSE
    /\ SEQ_OUTCOME = "none"
    /\ POPUP_VISIBLE = FALSE
    /\ AWARDS_GRANTED = FALSE
    /\ GOAL2START = NoHex
    /\ shortest_path_length = None
    /\ ROUND_OPTIMAL_DIST = None
    /\ LIVE_POSSIBLE_DIST = None
    /\ optimal_next_buttons = {}
    /\ OPTIMAL_STREAK_CURR = 0
    /\ OPTIMAL_STREAK_BEST = 0
    /\ RUN_TOTAL_MOVES = 0
    /\ RUN_TOTAL_OPTIMAL = 0
    /\ RUN_TOTAL_INSIGHT = 0
    /\ RUN_TOTAL_SPENT = 0
    /\ LAST_ROUND_INSIGHT = 0
    /\ deck_popup_visible = FALSE
    /\ help_popup_visible = FALSE
    /\ run_goals = <<>>

Init ==
    /\ InitGlobals
    /\ HEXAGRAM_DATA = FullCatalog
    /\ sp_start = NoHex
    /\ sp_goal = NoHex
    /\ sp_allowed = <<>>
    /\ sp_result = <<>>
    /\ op_idx = None
    /\ op_chain = <<>>

\* ---------------------------------------------------------------------
\* Guidance
\* ---------------------------------------------------------------------
\* The module-level ROUND_START_BIN is never assigned (reset_game assigns
\* a local of the same name), so it stays None.
ROUND_START_BIN == NoHex

Tip(g) == g.hexagram_chain[Len(g.hexagram_chain)]

RECURSIVE IndicesFrom(_, _)
IndicesFrom(unlocked, i) ==
    IF i > 8 THEN <<>>
    ELSE (IF unlocked[i] THEN <<i>> ELSE <<>>) \o IndicesFrom(unlocked, i + 1)

\* get_allowed_transform_indices(): the unlocked indices in ascending order
get_allowed_transform_indices(g) == IndicesFrom(g.TRANSFORM_UNLOCKED, 0)

SeqToSet(sq) == {sq[i] : i \in 1..Len(sq)}

recompute_optimal_guidance(g) ==
    IF g.goal_hexagram = NoHex \/ Len(g.hexagram_chain) = 0
    THEN [g EXCEPT !.shortest_path_length = None, !.optimal_next_buttons = {}]
    ELSE LET allowed == get_allowed_transform_indices(g)
             r == shortest_path_with_allowed(Tip(g), g.goal_hexagram, allowed)
         IN  [g EXCEPT !.shortest_path_length = r[1],
                       !.optimal_next_buttons = r[2] \cap SeqToSet(allowed)]

recompute_static_optimal(g, anchor_bin) ==
    IF g.goal_hexagram = NoHex
    THEN [g EXCEPT !.ROUND_OPTIMAL_DIST = None]
    ELSE LET start_bin ==
                 IF anchor_bin # NoHex THEN anchor_bin
                 ELSE IF ROUND_START_BIN # NoHex THEN ROUND_START_BIN
                 ELSE IF Len(g.hexagram_chain) > 0 THEN Tip(g) ELSE NoHex
         IN  IF start_bin = NoHex
             THEN [g EXCEPT !.ROUND_OPTIMAL_DIST = None]
             ELSE [g EXCEPT !.ROUND_OPTIMAL_DIST =
                       shortest_path_with_allowed(start_bin, g.goal_hexagram,
                           get_allowed_transform_indices(g))[1]]

recompute_live_guidance(g) ==
    IF g.goal_hexagram = NoHex \/ Len(g.hexagram_chain) = 0
    THEN [g EXCEPT !.optimal_next_buttons = {}, !.LIVE_POSSIBLE_DIST = None]
    ELSE LET r == shortest_path_with_allowed(Tip(g), g.goal_hexagram,
                      get_allowed_transform_indices(g))
         IN  [g EXCEPT !.LIVE_POSSIBLE_DIST = r[1], !.optimal_next_buttons = r[2]]

\* Variant of apply_transformation that consumes the hint only when the
\* operator played is one of the hinted optimal buttons.
apply_transformation_hint_if_optimal(g, idx) ==
    IF Len(g.hexagram_chain) > 0 /\ ~g.locked
    THEN LET prev == Tip(g)
             new_binary == func(idx, prev)
         IN  IF new_binary \in g.HEXAGRAM_DATA
             THEN LET g1 == [g EXCEPT !.hexagram_chain = Append(@, new_binary)]
                      g2 == [recompute_live_guidance(g1) EXCEPT
                                !.HINTS_ENABLED = @ /\ idx \notin g.optimal_next_buttons]
                      current_moves == Len(g2.hexagram_chain) - 1
                  IN  IF current_moves > transformation_limit
                         /\ ~(g2.goal_hexagram # NoHex /\ new_binary = g2.goal_hexagram)
                      THEN [g2 EXCEPT !.locked = TRUE, !.round_failed = TRUE]
                      ELSE g2
             ELSE g
    ELSE g

\* Variant of apply_transformation that appends the new code without
\* looking it up in the catalog.
apply_transformation_unchecked(g, idx) ==
    IF Len(g.hexagram_chain) > 0 /\ ~g.locked
    THEN LET prev == Tip(g)
             new_binary == func(idx, prev)
         IN  IF TRUE
             THEN LET g1 == [g EXCEPT !.hexagram_chain = Append(@, new_binary)]
                      g2 == [recompute_live_guidance(g1) EXCEPT !.HINTS_ENABLED = FALSE]
                      current_moves == Len(g2.hexagram_chain) - 1
                  IN  IF current_moves > transformation_limit
                         /\ ~(g2.goal_hexagram # NoHex /\ new_binary = g2.goal_hexagram)
                      THEN [g2 EXCEPT !.locked = TRUE, !.round_failed = TRUE]
                      ELSE g2
             ELSE g
    ELSE g

\* Variant of apply_transformation that also recomputes the static
\* optimal distance, from the new tip.
apply_transformation_restatic(g, idx) ==
    IF Len(g.hexagram_chain) > 0 /\ ~g.locked
    THEN LET prev == Tip(g)
             new_binary == func(idx, prev)
         IN  IF new_binary \in g.HEXAGRAM_DATA
             THEN LET g1 == [g EXCEPT !.hexagram_chain = Append(@, new_binary)]
                      g2 == [recompute_static_optimal(recompute_live_guidance(g1),
                                                      new_binary)
                                EXCEPT !.HINTS_ENABLED = FALSE]
                      current_moves == Len(g2.hexagram_chain) - 1
                  IN  IF current_moves > transformation_limit
                         /\ ~(g2.goal_hexagram # NoHex /\ new_binary = g2.goal_hexagram)
                      THEN [g2 EXCEPT !.locked = TRUE, !.round_failed = TRUE]
                      ELSE g2
             ELSE g
    ELSE g

\* Variant of apply_transformation that appends the complement of the
\* operator's result.
apply_transformation_complemented(g, idx) ==
    IF Len(g.hexagram_chain) > 0 /\ ~g.locked
    THEN LET prev == Tip(g)
             new_binary == cuo_gua(func(idx, prev))
         IN  IF new_binary \in g.HEXAGRAM_DATA
             THEN LET g1 == [g EXCEPT !.hexagram_chain = Append(@, new_binary)]
                      g2 == [recompute_live_guidance(g1) EXCEPT !.HINTS_ENABLED = FALSE]
                      current_moves == Len(g2.hexagram_chain) - 1
                  IN  IF current_moves > transformation_limit
                         /\ ~(g2.goal_hexagram # NoHex /\ new_binary = g2.goal_hexagram)
                      THEN [g2 EXCEPT !.locked = TRUE, !.round_failed = TRUE]
                      ELSE g2
             ELSE g
    ELSE g

\* ---------------------------------------------------------------------
\* apply_transformation (transform_func is TRANSFORMATIONS[idx]["func"])
\* ---------------------------------------------------------------------
apply_transformation(g, idx) ==
    IF Len(g.hexagram_chain) > 0 /\ ~g.locked
    THEN LET prev == Tip(g)
             new_binary == func(idx, prev)
         IN  IF new_binary \in g.HEXAGRAM_DATA
             THEN LET g1 == [g EXCEPT !.hexagram_chain = Append(@, new_binary)]
                      g2 == [recompute_live_guidance(g1) EXCEPT !.HINTS_ENABLED = FALSE]
                      current_moves == Len(g2.hexagram_chain) - 1
                  IN  IF current_moves > transformation_limit
                         /\ ~(g2.goal_hexagram # NoHex /\ new_binary = g2.goal_hexagram)
                      THEN [g2 EXCEPT !.locked = TRUE, !.round_failed = TRUE]
                      ELSE g2
             ELSE g
    ELSE g

\* Variant of reset_flags that keeps the unlock cost over a full reset.
reset_flags_keep_cost(g, full_reset) ==
    LET g1 == [g EXCEPT !.game_started = TRUE,
                        !.help_popup_visible = FALSE,
                        !.pending_change = None,
                        !.round_failed = FALSE,
                        !.POPUP_VISIBLE = FALSE,
                        !.WIN_SEQ_ACTIVE = FALSE,
                        !.SEQ_OUTCOME = "none",
                        !.HINTS_ENABLED = FALSE,
                        !.AWARDS_GRANTED = FALSE,
                        !.SHOP_VISIBLE = TRUE,
                        !.HINTS_COUNT_THIS_ROUND = 0]
    IN  IF full_reset
        THEN [g1 EXCEPT !.RUN_TOTAL_INSIGHT = 0,
                        !.RUN_TOTAL_SPENT = 0,
                        !.RUN_TOTAL_MOVES = 0,
                        !.RUN_TOTAL_OPTIMAL = 0,
                        !.RUN_HINTS_COUNT = 0,
                        !.INSIGHT_BALANCE = 0,
                        !.OPTIMAL_STREAK_CURR = 0,
                        !.OPTIMAL_STREAK_BEST = 0,
                        !.collected_hexagrams = {},
                        !.TRANSFORM_UNLOCKED =
                            [i \in 0..8 |-> TRANSFORMATIONS[i].short \in FREEBIE_SHORTS],
                        !.SHOP_VISIBLE = FALSE,
                        !.used_hexagrams = {},
                        !.run_goals = <<>>]
        ELSE g1

\* Variant of reset_flags whose full reset keeps the best streak.
reset_flags_keep_streak(g, full_reset) ==
    LET g1 == [g EXCEPT !.game_started = TRUE,
                        !.help_popup_visible = FALSE,
                        !.pending_change = None,
                        !.round_failed = FALSE,
                        !.POPUP_VISIBLE = FALSE,
                        !.WIN_SEQ_ACTIVE = FALSE,
                        !.SEQ_OUTCOME = "none",
                        !.HINTS_ENABLED = FALSE,
                        !.AWARDS_GRANTED = FALSE,
                        !.SHOP_VISIBLE = TRUE,
                        !.HINTS_COUNT_THIS_ROUND = 0]
    IN  IF full_reset
        THEN [g1 EXCEPT !.RUN_TOTAL_INSIGHT = 0,
                        !.RUN_TOTAL_SPENT = 0,
                        !.RUN_TOTAL_MOVES = 0,
                        !.RUN_TOTAL_OPTIMAL = 0,
                        !.RUN_HINTS_COUNT = 0,
                        !.INSIGHT_BALANCE = 0,
                        !.OPTIMAL_STREAK_CURR = 0,
                        !.collected_hexagrams = {},
                        !.TRANSFORM_UNLOCKED =
                            [i \in 0..8 |-> TRANSFORMATIONS[i].short \in FREEBIE_SHORTS],
                        !.BUY_COST_CURRENT = BUY_START_COST,
                        !.SHOP_VISIBLE = FALSE,
                        !.used_hexagrams = {},
                        !.run_goals = <<>>]
        ELSE g1

\* ---------------------------------------------------------------------
\* reset_game(start_hexagram, full_reset); generated and chosen stand for
\* the results of generate_hexagram() and random.choice(...)
\* ---------------------------------------------------------------------
reset_flags(g, full_reset) ==
    LET g1 == [g EXCEPT !.game_started = TRUE,
                        !.help_popup_visible = FALSE,
                        !.pending_change = None,
                        !.round_failed = FALSE,
                        !.POPUP_VISIBLE = FALSE,
                        !.WIN_SEQ_ACTIVE = FALSE,
                        !.SEQ_OUTCOME = "none",
                        !.HINTS_ENABLED = FALSE,
                        !.AWARDS_GRANTED = FALSE,
                        !.SHOP_VISIBLE = TRUE,
                        !.HINTS_COUNT_THIS_ROUND = 0]
    IN  IF full_reset
        THEN [g1 EXCEPT !.RUN_TOTAL_INSIGHT = 0,
                        !.RUN_TOTAL_SPENT = 0,
                        !.RUN_TOTAL_MOVES = 0,
                        !.RUN_TOTAL_OPTIMAL = 0,
                        !.RUN_HINTS_COUNT = 0,
                        !.INSIGHT_BALANCE = 0,
                        !.OPTIMAL_STREAK_CURR = 0,
                        !.OPTIMAL_STREAK_BEST = 0,
                        !.collected_hexagrams = {},
                        !.TRANSFORM_UNLOCKED =
                            [i \in 0..8 |-> TRANSFORMATIONS[i].short \in FREEBIE_SHORTS],
                        !.BUY_COST_CURRENT = BUY_START_COST,
                        !.SHOP_VISIBLE = FALSE,
                        !.used_hexagrams = {},
                        !.run_goals = <<>>]
        ELSE g1

\* The start code of the new round.
reset_collapsed(start_hexagram, generated) ==
    IF start_hexagram = NoHex THEN generated ELSE start_hexagram

\* Variant of possible_hexagrams that offers the whole catalog.
possible_hexagrams_unfiltered(g, start_hexagram, full_reset, generated) ==
    g.HEXAGRAM_DATA

\* possible_hexagrams of reset_game
possible_hexagrams(g, start_hexagram, full_reset, generated) ==
    (g.HEXAGRAM_DATA \ reset_flags(g, full_reset).used_hexagrams)
        \ {reset_collapsed(start_hexagram, generated)}

reset_game(g, start_hexagram, full_reset, generated, chosen) ==
    LET g1 == reset_flags(g, full_reset)
        collapsed == reset_collapsed(start_hexagram, generated)
        g2 == IF collapsed \in g.HEXAGRAM_DATA
              THEN [g1 EXCEPT !.hexagram_chain = <<collapsed>>, !.locked = FALSE]
              ELSE g1
        possible == possible_hexagrams(g, start_hexagram, full_reset, generated)
    IN  IF possible = {}
        THEN [g2 EXCEPT !.locked = TRUE]
        ELSE LET g3 == IF chosen \in g.HEXAGRAM_DATA
                       THEN [g2 EXCEPT !.goal_hexagram = chosen] ELSE g2
                 g4 == recompute_optimal_guidance(g3)
                 g5 == recompute_static_optimal(g4, collapsed)
                 g6 == recompute_live_guidance(g5)
                 g7 == [g6 EXCEPT !.help_popup_visible = FALSE,
                                  !.used_hexagrams = @ \cup {chosen},
                                  !.run_goals = Append(@, chosen),
                                  !.WIN_SEQ_ACTIVE = FALSE,
                                  !.POPUP_VISIBLE = FALSE]
             IN  IF full_reset
                 THEN [g7 EXCEPT !.used_hexagrams = {},
                                 !.RUN_TOTAL_MOVES = 0,
                                 !.RUN_TOTAL_OPTIMAL = 0,
                                 !.RUN_TOTAL_INSIGHT = 0,
                                 !.RUN_TOTAL_SPENT = 0]
                 ELSE g7

\* ---------------------------------------------------------------------
\* finalize_round_awards
\* ---------------------------------------------------------------------
Max(a, b) == IF a >= b THEN a ELSE b

\* Variant of finalize_round_awards without the AWARDS_GRANTED guard.
finalize_round_awards_unguarded(g) ==
    LET current_moves == Len(g.hexagram_chain) - 1
        optimal == IF g.ROUND_OPTIMAL_DIST # None THEN g.ROUND_OPTIMAL_DIST
                   ELSE current_moves
        was_optimal == g.ROUND_OPTIMAL_DIST # None
                       /\ current_moves = g.ROUND_OPTIMAL_DIST
        was_hintless == g.HINTS_COUNT_THIS_ROUND = 0
        streak_hit == g.SEQ_OUTCOME = "success" /\ was_hintless /\ was_optimal
        streak_curr == IF streak_hit THEN g.OPTIMAL_STREAK_CURR + 1 ELSE 0
        streak_best == IF streak_hit /\ streak_curr > g.OPTIMAL_STREAK_BEST
                       THEN streak_curr ELSE g.OPTIMAL_STREAK_BEST
        base == Max(1, optimal * 2 - current_moves)
        bonus_optimal == IF was_optimal THEN OPTIMAL_BONUS_IP ELSE 0
        gained_raw == base + bonus_optimal + streak_curr
                      - HINT_PENALTY_IP * g.HINTS_COUNT_THIS_ROUND
        gained == Max(SUCCESS_AWARD_MIN_IP, gained_raw)
        g1 == [g EXCEPT !.AWARDS_GRANTED = TRUE,
                        !.OPTIMAL_STREAK_CURR = streak_curr,
                        !.OPTIMAL_STREAK_BEST = streak_best]
    IN  IF g.SEQ_OUTCOME = "success"
        THEN [g1 EXCEPT !.LAST_ROUND_INSIGHT = gained,
                        !.INSIGHT_BALANCE = @ + gained,
                        !.RUN_TOTAL_INSIGHT = @ + gained]
        ELSE [g1 EXCEPT !.LAST_ROUND_INSIGHT = 0]

\* Variant of finalize_round_awards whose award is not floored at
\* SUCCESS_AWARD_MIN_IP (it is floored at 0).
finalize_round_awards_floor0(g) ==
    IF g.AWARDS_GRANTED THEN g
    ELSE
    LET current_moves == Len(g.hexagram_chain) - 1
        optimal == IF g.ROUND_OPTIMAL_DIST # None THEN g.ROUND_OPTIMAL_DIST
                   ELSE current_moves
        was_optimal == g.ROUND_OPTIMAL_DIST # None
                       /\ current_moves = g.ROUND_OPTIMAL_DIST
        was_hintless == g.HINTS_COUNT_THIS_ROUND = 0
        streak_hit == g.SEQ_OUTCOME = "success" /\ was_hintless /\ was_optimal
        streak_curr == IF streak_hit THEN g.OPTIMAL_STREAK_CURR + 1 ELSE 0
        streak_best == IF streak_hit /\ streak_curr > g.OPTIMAL_STREAK_BEST
                       THEN streak_curr ELSE g.OPTIMAL_STREAK_BEST
        base == Max(1, optimal * 2 - current_moves)
        bonus_optimal == IF was_optimal THEN OPTIMAL_BONUS_IP ELSE 0
        gained_raw == base + bonus_optimal + streak_curr
                      - HINT_PENALTY_IP * g.HINTS_COUNT_THIS_ROUND
        gained == Max(0, gained_raw)
        g1 == [g EXCEPT !.AWARDS_GRANTED = TRUE,
                        !.OPTIMAL_STREAK_CURR = streak_curr,
                        !.OPTIMAL_STREAK_BEST = streak_best]
    IN  IF g.SEQ_OUTCOME = "success"
        THEN [g1 EXCEPT !.LAST_ROUND_INSIGHT = gained,
                        !.INSIGHT_BALANCE = @ + gained,
                        !.RUN_TOTAL_INSIGHT = @ + gained]
        ELSE [g1 EXCEPT !.LAST_ROUND_INSIGHT = 0]

\* Variant of finalize_round_awards whose streak ignores the hints used.
finalize_round_awards_hinted_streak(g) ==
    IF g.AWARDS_GRANTED THEN g
    ELSE
    LET current_moves == Len(g.hexagram_chain) - 1
        optimal == IF g.ROUND_OPTIMAL_DIST # None THEN g.ROUND_OPTIMAL_DIST
                   ELSE current_moves
        was_optimal == g.ROUND_OPTIMAL_DIST # None
                       /\ current_moves = g.ROUND_OPTIMAL_DIST
        streak_hit == g.SEQ_OUTCOME = "success" /\ was_optimal
        streak_curr == IF streak_hit THEN g.OPTIMAL_STREAK_CURR + 1 ELSE 0
        streak_best == IF streak_hit /\ streak_curr > g.OPTIMAL_STREAK_BEST
                       THEN streak_curr ELSE g.OPTIMAL_STREAK_BEST
        base == Max(1, optimal * 2 - current_moves)
        bonus_optimal == IF was_optimal THEN OPTIMAL_BONUS_IP ELSE 0
        gained_raw == base + bonus_optimal + streak_curr
                      - HINT_PENALTY_IP * g.HINTS_COUNT_THIS_ROUND
        gained == Max(SUCCESS_AWARD_MIN_IP, gained_raw)
        g1 == [g EXCEPT !.AWARDS_GRANTED = TRUE,
                        !.OPTIMAL_STREAK_CURR = streak_curr,
                        !.OPTIMAL_STREAK_BEST = streak_best]
    IN  IF g.SEQ_OUTCOME = "success"
        THEN [g1 EXCEPT !.LAST_ROUND_INSIGHT = gained,
                        !.INSIGHT_BALANCE = @ + gained,
                        !.RUN_TOTAL_INSIGHT = @ + gained]
        ELSE [g1 EXCEPT !.LAST_ROUND_INSIGHT = 0]

finalize_round_awards(g) ==
    IF g.AWARDS_GRANTED THEN g
    ELSE
    LET current_moves == Len(g.hexagram_chain) - 1
        optimal == IF g.ROUND_OPTIMAL_DIST # None THEN g.ROUND_OPTIMAL_DIST
                   ELSE current_moves
        was_optimal == g.ROUND_OPTIMAL_DIST # None
                       /\ current_moves = g.ROUND_OPTIMAL_DIST
        was_hintless == g.HINTS_COUNT_THIS_ROUND = 0
        streak_hit == g.SEQ_OUTCOME = "success" /\ was_hintless /\ was_optimal
        streak_curr == IF streak_hit THEN g.OPTIMAL_STREAK_CURR + 1 ELSE 0
        streak_best == IF streak_hit /\ streak_curr > g.OPTIMAL_STREAK_BEST
                       THEN streak_curr ELSE g.OPTIMAL_STREAK_BEST
        base == Max(1, optimal * 2 - current_moves)
        bonus_optimal == IF was_optimal THEN OPTIMAL_BONUS_IP ELSE 0
        bonus_streak == streak_curr
        penalty_hints == HINT_PENALTY_IP * g.HINTS_COUNT_THIS_ROUND
        gained_raw == base + bonus_optimal + bonus_streak - penalty_hints
        gained == Max(SUCCESS_AWARD_MIN_IP, gained_raw)
        g1 == [g EXCEPT !.AWARDS_GRANTED = TRUE,
                        !.OPTIMAL_STREAK_CURR = streak_curr,
                        !.OPTIMAL_STREAK_BEST = streak_best]
    IN  IF g.SEQ_OUTCOME = "success"
        THEN [g1 EXCEPT !.LAST_ROUND_INSIGHT = gained,
                        !.INSIGHT_BALANCE = @ + gained,
                        !.RUN_TOTAL_INSIGHT = @ + gained]
        ELSE [g1 EXCEPT !.LAST_ROUND_INSIGHT = 0]

\* ---------------------------------------------------------------------
\* Click handlers (handle_mouse_click and its callees)
\* ---------------------------------------------------------------------
toggle_popup(g, which) ==
    IF which = "help"
    THEN LET new_state == ~g.help_popup_visible
         IN  [g EXCEPT !.help_popup_visible = new_state,
                       !.deck_popup_visible = IF new_state THEN FALSE ELSE @]
    ELSE LET new_state == ~g.deck_popup_visible
         IN  [g EXCEPT !.deck_popup_visible = new_state,
                       !.help_popup_visible = IF new_state THEN FALSE ELSE @]

modal_open(g) == g.deck_popup_visible \/ g.help_popup_visible \/ g.POPUP_VISIBLE

\* Variant of is_change_unlocked that does not look at TRANSFORM_UNLOCKED.
is_change_unlocked_any(g, i) ==
    g.game_started /\ ~modal_open(g)

is_change_unlocked(g, i) ==
    g.game_started /\ ~modal_open(g) /\ g.TRANSFORM_UNLOCKED[i]

\* Variant of handle_transformation_click without the pending-move guard.
handle_transformation_click_repend(g, button_index) ==
    IF g.locked THEN g
    ELSE IF 0 <= button_index /\ button_index < 9
    THEN [g EXCEPT !.pending_change = button_index]
    ELSE g

handle_transformation_click(g, button_index) ==
    IF g.locked \/ g.pending_change # None THEN g
    ELSE IF 0 <= button_index /\ button_index < 9
    THEN [g EXCEPT !.pending_change = button_index]
    ELSE g

\* handle_mouse_click, click on the coins button.  Tells whether the
\* click calls reset_game, and with which arguments.
coins_resets(g) ==
    /\ (~g.game_started) \/ g.POPUP_VISIBLE
    /\ \/ ~g.game_started
       \/ g.goal_hexagram = NoHex
       \/ g.SEQ_OUTCOME # "success"
       \/ Cardinality(g.collected_hexagrams) >= DECK_SIZE

\* Variant of click_coins that continues the run after every success.
click_coins_continues(g, generated, chosen) ==
    IF (~g.game_started) \/ g.POPUP_VISIBLE
    THEN IF ~g.game_started \/ g.goal_hexagram = NoHex
         THEN reset_game(g, NoHex, TRUE, generated, chosen)
         ELSE IF g.SEQ_OUTCOME = "success"
         THEN [g EXCEPT !.POPUP_VISIBLE = FALSE,
                        !.GOAL2START = g.goal_hexagram]
         ELSE reset_game([g EXCEPT !.POPUP_VISIBLE = FALSE], NoHex, TRUE,
                         generated, chosen)
    ELSE g

click_coins(g, generated, chosen) ==
    IF (~g.game_started) \/ g.POPUP_VISIBLE
    THEN IF ~g.game_started \/ g.goal_hexagram = NoHex
         THEN reset_game(g, NoHex, TRUE, generated, chosen)
         ELSE IF g.SEQ_OUTCOME = "success"
         THEN IF Cardinality(g.collected_hexagrams) >= DECK_SIZE
              THEN reset_game([g EXCEPT !.POPUP_VISIBLE = FALSE], NoHex, TRUE,
                              generated, chosen)
              ELSE [g EXCEPT !.POPUP_VISIBLE = FALSE,
                             !.GOAL2START = g.goal_hexagram]
         ELSE reset_game([g EXCEPT !.POPUP_VISIBLE = FALSE], NoHex, TRUE,
                         generated, chosen)
    ELSE g

\* Variant of click_hint that does not count the hint for the run.
click_hint_uncounted(g) ==
    IF g.game_started /\ ~modal_open(g)
    THEN IF ~g.HINTS_ENABLED
         THEN IF g.INSIGHT_BALANCE >= HINT_COST_IP
              THEN [g EXCEPT !.HINTS_ENABLED = TRUE,
                             !.INSIGHT_BALANCE = @ - HINT_COST_IP,
                             !.RUN_TOTAL_SPENT = @ + HINT_COST_IP,
                             !.HINTS_COUNT_THIS_ROUND = @ + 1]
              ELSE g
         ELSE g
    ELSE g

\* Variant of click_hint that sells the hint whatever the balance.
click_hint_on_credit(g) ==
    IF g.game_started /\ ~modal_open(g)
    THEN IF ~g.HINTS_ENABLED
         THEN [g EXCEPT !.HINTS_ENABLED = TRUE,
                        !.INSIGHT_BALANCE = @ - HINT_COST_IP,
                        !.RUN_TOTAL_SPENT = @ + HINT_COST_IP,
                        !.HINTS_COUNT_THIS_ROUND = @ + 1,
                        !.RUN_HINTS_COUNT = @ + 1]
         ELSE g
    ELSE g

\* Variant of click_hint that does not add the price to RUN_TOTAL_SPENT.
click_hint_unrecorded(g) ==
    IF g.game_started /\ ~modal_open(g)
    THEN IF ~g.HINTS_ENABLED
         THEN IF g.INSIGHT_BALANCE >= HINT_COST_IP
              THEN [g EXCEPT !.HINTS_ENABLED = TRUE,
                             !.INSIGHT_BALANCE = @ - HINT_COST_IP,
                             !.HINTS_COUNT_THIS_ROUND = @ + 1,
                             !.RUN_HINTS_COUNT = @ + 1]
              ELSE g
         ELSE g
    ELSE g

\* handle_mouse_click, click on the hint icon
click_hint(g) ==
    IF g.game_started /\ ~modal_open(g)
    THEN IF ~g.HINTS_ENABLED
         THEN IF g.INSIGHT_BALANCE >= HINT_COST_IP
              THEN [g EXCEPT !.HINTS_ENABLED = TRUE,
                             !.INSIGHT_BALANCE = @ - HINT_COST_IP,
                             !.RUN_TOTAL_SPENT = @ + HINT_COST_IP,
                             !.HINTS_COUNT_THIS_ROUND = @ + 1,
                             !.RUN_HINTS_COUNT = @ + 1]
              ELSE g
         ELSE g
    ELSE g

\* Variant of click_buy that leaves the static optimal distance as it was.
click_buy_static_stale(g, idx) ==
    IF g.game_started /\ g.SHOP_VISIBLE
       /\ g.INSIGHT_BALANCE >= g.BUY_COST_CURRENT /\ ~modal_open(g)
       /\ ~g.TRANSFORM_UNLOCKED[idx]
    THEN IF g.INSIGHT_BALANCE >= g.BUY_COST_CURRENT
         THEN LET cost == g.BUY_COST_CURRENT
                  g1 == [g EXCEPT !.INSIGHT_BALANCE = @ - cost,
                                  !.RUN_TOTAL_SPENT = @ + cost,
                                  !.TRANSFORM_UNLOCKED[idx] = TRUE,
                                  !.BUY_COST_CURRENT = @ + BUY_COST_STEP]
              IN  recompute_live_guidance(g1)
         ELSE g
    ELSE g

\* Variant of click_buy that leaves the live guidance as it was.
click_buy_live_stale(g, idx) ==
    IF g.game_started /\ g.SHOP_VISIBLE
       /\ g.INSIGHT_BALANCE >= g.BUY_COST_CURRENT /\ ~modal_open(g)
       /\ ~g.TRANSFORM_UNLOCKED[idx]
    THEN IF g.INSIGHT_BALANCE >= g.BUY_COST_CURRENT
         THEN LET cost == g.BUY_COST_CURRENT
                  g1 == [g EXCEPT !.INSIGHT_BALANCE = @ - cost,
                                  !.RUN_TOTAL_SPENT = @ + cost,
                                  !.TRANSFORM_UNLOCKED[idx] = TRUE,
                                  !.BUY_COST_CURRENT = @ + BUY_COST_STEP]
                  current_bin == IF Len(g1.hexagram_chain) > 0 THEN Tip(g1)
                                 ELSE ROUND_START_BIN
              IN  recompute_static_optimal(g1, current_bin)
         ELSE g
    ELSE g

\* handle_mouse_click, click on the buy pill below transform button idx
click_buy(g, idx) ==
    IF g.game_started /\ g.SHOP_VISIBLE
       /\ g.INSIGHT_BALANCE >= g.BUY_COST_CURRENT /\ ~modal_open(g)
       /\ ~g.TRANSFORM_UNLOCKED[idx]
    THEN IF g.INSIGHT_BALANCE >= g.BUY_COST_CURRENT
         THEN LET cost == g.BUY_COST_CURRENT
                  g1 == [g EXCEPT !.INSIGHT_BALANCE = @ - cost,
                                  !.RUN_TOTAL_SPENT = @ + cost,
                                  !.TRANSFORM_UNLOCKED[idx] = TRUE,
                                  !.BUY_COST_CURRENT = @ + BUY_COST_STEP]
                  g2 == recompute_live_guidance(g1)
                  current_bin == IF Len(g2.hexagram_chain) > 0 THEN Tip(g2)
                                 ELSE ROUND_START_BIN
              IN  recompute_static_optimal(g2, current_bin)
         ELSE g
    ELSE g

\* handle_mouse_click, click on transform button idx
click_transform(g, idx) ==
    IF Len(g.hexagram_chain) > 0 /\ ~g.locked
    THEN IF is_change_unlocked(g, idx)
         THEN handle_transformation_click([g EXCEPT !.SHOP_VISIBLE = FALSE], idx)
         ELSE g
    ELSE g

\* ---------------------------------------------------------------------
\* The body of one frame of run_game, after the event loop
\* ---------------------------------------------------------------------
\* "Resolve pending change after duration"; due: PENDING_DURATION_MS elapsed
frame_pending(g, due) ==
    IF g.pending_change # None /\ due
    THEN [apply_transformation(g, g.pending_change) EXCEPT !.pending_change = None]
    ELSE g

\* Variant of frame_win that counts a win only below the move limit.
frame_win_below_limit(g) ==
    IF g.goal_hexagram # NoHex /\ Len(g.hexagram_chain) > 0
       /\ Tip(g) = g.goal_hexagram
       /\ Len(g.hexagram_chain) - 1 < transformation_limit
    THEN IF ~g.WIN_SEQ_ACTIVE
         THEN LET current_moves == Len(g.hexagram_chain) - 1
                  optimal == IF g.shortest_path_length # None
                             THEN g.shortest_path_length ELSE current_moves
                  base == Max(1, optimal * 2 - current_moves)
              IN  [g EXCEPT !.locked = TRUE,
                            !.WIN_SEQ_ACTIVE = TRUE,
                            !.SEQ_OUTCOME = "success",
                            !.collected_hexagrams = @ \cup {g.goal_hexagram},
                            !.LAST_ROUND_INSIGHT = base,
                            !.RUN_TOTAL_MOVES = @ + current_moves,
                            !.RUN_TOTAL_OPTIMAL = @ + optimal,
                            !.HINTS_ENABLED = FALSE]
         ELSE [g EXCEPT !.locked = TRUE]
    ELSE g

\* Variant of frame_win that does not add the goal to the collection.
frame_win_uncollected(g) ==
    IF g.goal_hexagram # NoHex /\ Len(g.hexagram_chain) > 0
       /\ Tip(g) = g.goal_hexagram
    THEN IF ~g.WIN_SEQ_ACTIVE
         THEN LET current_moves == Len(g.hexagram_chain) - 1
                  optimal == IF g.shortest_path_length # None
                             THEN g.shortest_path_length ELSE current_moves
                  base == Max(1, optimal * 2 - current_moves)
              IN  [g EXCEPT !.locked = TRUE,
                            !.WIN_SEQ_ACTIVE = TRUE,
                            !.SEQ_OUTCOME = "success",
                            !.LAST_ROUND_INSIGHT = base,
                            !.RUN_TOTAL_MOVES = @ + current_moves,
                            !.RUN_TOTAL_OPTIMAL = @ + optimal,
                            !.HINTS_ENABLED = FALSE]
         ELSE [g EXCEPT !.locked = TRUE]
    ELSE g

\* Variant of frame_win that unlocks the board once the win sequence runs.
frame_win_reopens(g) ==
    IF g.goal_hexagram # NoHex /\ Len(g.hexagram_chain) > 0
       /\ Tip(g) = g.goal_hexagram
    THEN IF ~g.WIN_SEQ_ACTIVE
         THEN LET current_moves == Len(g.hexagram_chain) - 1
                  optimal == IF g.shortest_path_length # None
                             THEN g.shortest_path_length ELSE current_moves
                  base == Max(1, optimal * 2 - current_moves)
              IN  [g EXCEPT !.locked = TRUE,
                            !.WIN_SEQ_ACTIVE = TRUE,
                            !.SEQ_OUTCOME = "success",
                            !.collected_hexagrams = @ \cup {g.goal_hexagram},
                            !.LAST_ROUND_INSIGHT = base,
                            !.RUN_TOTAL_MOVES = @ + current_moves,
                            !.RUN_TOTAL_OPTIMAL = @ + optimal,
                            !.HINTS_ENABLED = FALSE]
         ELSE [g EXCEPT !.locked = FALSE]
    ELSE g

\* "Check win condition and kick off win sequence once"
frame_win(g) ==
    IF g.goal_hexagram # NoHex /\ Len(g.hexagram_chain) > 0
       /\ Tip(g) = g.goal_hexagram
    THEN IF ~g.WIN_SEQ_ACTIVE
         THEN LET current_moves == Len(g.hexagram_chain) - 1
                  optimal == IF g.shortest_path_length # None
                             THEN g.shortest_path_length ELSE current_moves
                  base == Max(1, optimal * 2 - current_moves)
              IN  [g EXCEPT !.locked = TRUE,
                            !.WIN_SEQ_ACTIVE = TRUE,
                            !.SEQ_OUTCOME = "success",
                            !.collected_hexagrams = @ \cup {g.goal_hexagram},
                            !.LAST_ROUND_INSIGHT = base,
                            !.RUN_TOTAL_MOVES = @ + current_moves,
                            !.RUN_TOTAL_OPTIMAL = @ + optimal,
                            !.HINTS_ENABLED = FALSE]
         ELSE [g EXCEPT !.locked = TRUE]
    ELSE g

\* Variant of frame_safety that never marks the failure.
frame_safety_never(g) == g

\* Variant of frame_safety that waits for the move count to exceed the limit.
frame_safety_strict(g) ==
    IF ~g.WIN_SEQ_ACTIVE /\ g.goal_hexagram # NoHex /\ Len(g.hexagram_chain) > 0
       /\ Len(g.hexagram_chain) - 1 > transformation_limit
       /\ Tip(g) # g.goal_hexagram
    THEN [g EXCEPT !.locked = TRUE, !.round_failed = TRUE]
    ELSE g

\* Variant of frame_safety that writes locked = False.
frame_safety_unlocks(g) ==
    IF ~g.WIN_SEQ_ACTIVE /\ g.goal_hexagram # NoHex /\ Len(g.hexagram_chain) > 0
       /\ Len(g.hexagram_chain) - 1 >= transformation_limit
       /\ Tip(g) # g.goal_hexagram
    THEN [g EXCEPT !.locked = FALSE, !.round_failed = TRUE]
    ELSE g

\* "Safety: if we filled the last slot and it's not the goal, mark failure"
frame_safety(g) ==
    IF ~g.WIN_SEQ_ACTIVE /\ g.goal_hexagram # NoHex /\ Len(g.hexagram_chain) > 0
       /\ Len(g.hexagram_chain) - 1 >= transformation_limit
       /\ Tip(g) # g.goal_hexagram
    THEN [g EXCEPT !.locked = TRUE, !.round_failed = TRUE]
    ELSE g

\* "Failure sequence: include this round in cumulative totals"
frame_failure(g) ==
    IF g.round_failed /\ g.locked /\ ~g.WIN_SEQ_ACTIVE
    THEN LET current_moves == Len(g.hexagram_chain) - 1
             optimal == IF g.ROUND_OPTIMAL_DIST # None
                        THEN g.ROUND_OPTIMAL_DIST ELSE current_moves
             base == Max(1, optimal * 2 - current_moves)
         IN  [g EXCEPT !.SEQ_OUTCOME = "failure",
                       !.WIN_SEQ_ACTIVE = TRUE,
                       !.LAST_ROUND_INSIGHT = base,
                       !.RUN_TOTAL_MOVES = @ + current_moves,
                       !.RUN_TOTAL_OPTIMAL = @ + optimal,
                       !.HINTS_ENABLED = FALSE]
    ELSE g

\* "SUCCESS FLOW": once the gather / merge animation is over the judgment
\* popup opens and the awards are finalized.  due: the animation time has
\* elapsed (it has, for good, once the popup was shown in this round).
frame_popup(g, due) ==
    IF g.WIN_SEQ_ACTIVE /\ g.goal_hexagram # NoHex /\ Len(g.hexagram_chain) > 0
       /\ (due \/ g.AWARDS_GRANTED) /\ ~g.POPUP_VISIBLE
       /\ g.SEQ_OUTCOME \in {"success", "failure"}
    THEN IF g.SEQ_OUTCOME = "success"
         THEN [finalize_round_awards(g) EXCEPT !.POPUP_VISIBLE = TRUE]
         ELSE finalize_round_awards([g EXCEPT !.POPUP_VISIBLE = TRUE])
    ELSE g

\* draw_goal2start_swoosh; due: GOAL2START_DURATION_MS elapsed
swoosh_resets(g, due) == g.GOAL2START # NoHex /\ due

draw_goal2start_swoosh(g, due, generated, chosen) ==
    IF g.GOAL2START = NoHex THEN g
    ELSE IF due
    THEN LET start_bin == g.GOAL2START
             g1 == [g EXCEPT !.GOAL2START = NoHex]
         IN  IF Cardinality(g1.collected_hexagrams) >= DECK_SIZE
             THEN reset_game(g1, NoHex, TRUE, generated, chosen)
             ELSE reset_game(g1, start_bin, FALSE, generated, chosen)
    ELSE g

\* The frame up to the popups block.
frame_head(g, pending_due, popup_due) ==
    frame_popup(frame_failure(frame_safety(frame_win(
        frame_pending(g, pending_due)))), popup_due)

\* ---------------------------------------------------------------------
\* Actions: the events of the frame loop and the frame body
\* ---------------------------------------------------------------------
\* The random draws of a reset_game call: the goal is drawn from the
\* candidates, within GoalSample; nothing is drawn when there is none.
GoalDraw(g, start_hexagram, full_reset, generated, chosen) ==
    LET possible == possible_hexagrams(g, start_hexagram, full_reset, generated)
    IN  IF possible = {} THEN chosen = NoHex
        ELSE chosen \in possible \cap GoalSample(g.HEXAGRAM_DATA)

\* run_game swallows clicks outside the toolbar while the deck or help
\* popup is open.
BoardClickable == ~deck_popup_visible /\ ~help_popup_visible

ClickCoins ==
    /\ BoardClickable
    /\ \E generated \in StartCodes \cap HEXAGRAM_DATA, chosen \in GoalSample(HEXAGRAM_DATA) \cup {NoHex} :
          /\ IF coins_resets(Globals)
             THEN GoalDraw(Globals, NoHex, TRUE, generated, chosen)
             ELSE /\ chosen = NoHex /\ RUN_TOTAL_MOVES <= MaxRunMoves
                  /\ Len(hexagram_chain) > 1
          /\ Commit(click_coins(Globals, generated, chosen))

ClickHint ==
    /\ HINTS_COUNT_THIS_ROUND < MaxHintsPerRound
    /\ Commit(click_hint(Globals))

ClickBuy ==
    /\ BoardClickable
    /\ \E idx \in BuyChoices : Commit(click_buy(Globals, idx))

\* The buttons the player presses: any button during the first FreeMoves
\* moves; later one the live guidance marks optimal, or, as long as the
\* chain still shows the start code only, one that leaves it unchanged;
\* a locked button at any time, and one whose result the catalog lacks.
PlayerMay(idx) ==
    \/ ~TRANSFORM_UNLOCKED[idx]
    \/ (Len(hexagram_chain) > 0
        /\ func(idx, hexagram_chain[Len(hexagram_chain)]) \notin HEXAGRAM_DATA)
    \/ Len(hexagram_chain) - 1 < FreeMoves
    \/ idx \in optimal_next_buttons
    \/ (/\ Len(hexagram_chain) > 0
        /\ \A i \in 1..Len(hexagram_chain) : hexagram_chain[i] = hexagram_chain[1]
        /\ func(idx, hexagram_chain[1]) = hexagram_chain[1])

ClickTransform ==
    /\ BoardClickable
    /\ \E idx \in 0..8 :
          /\ PlayerMay(idx)
          /\ Commit(click_transform(Globals, idx))

ClickPopupIcon ==
    \E which \in {"help", "deck"} :
        /\ \/ (IF which = "help" THEN help_popup_visible ELSE deck_popup_visible)
           \/ Len(hexagram_chain) - 1 < PopupMoves
        /\ Commit(toggle_popup(Globals, which))

\* The frame after the popups block: the goal-to-start swoosh is drawn
\* (and may start the next round) only while no deck / help popup is open.
frame_tail(g5, swoosh_due, generated, chosen) ==
    IF g5.deck_popup_visible \/ g5.help_popup_visible
    THEN g5
    ELSE draw_goal2start_swoosh(g5, swoosh_due, generated, chosen)

Tick ==
    \E pending_due \in BOOLEAN, popup_due \in BOOLEAN :
        /\ pending_due => pending_change # None
        /\ popup_due =>
               LET g4 == frame_failure(frame_safety(frame_win(
                             frame_pending(Globals, pending_due))))
               IN  g4.WIN_SEQ_ACTIVE /\ ~g4.AWARDS_GRANTED
        /\ LET g5 == frame_head(Globals, pending_due, popup_due)
               resets == swoosh_resets(g5, TRUE)
                         /\ ~(g5.deck_popup_visible \/ g5.help_popup_visible)
           IN  \/ Commit(frame_tail(g5, FALSE, NoHex, NoHex))
               \/ /\ resets
                  /\ \E generated \in StartCodes \cap HEXAGRAM_DATA, chosen \in GoalSample(HEXAGRAM_DATA) \cup {NoHex} :
                        /\ IF Cardinality(g5.collected_hexagrams) >= DECK_SIZE
                           THEN GoalDraw(g5, NoHex, TRUE, generated, chosen)
                           ELSE GoalDraw(g5, g5.GOAL2START, FALSE, generated, chosen)
                        /\ Commit(frame_tail(g5, TRUE, generated, chosen))

Next ==
    \/ ClickCoins
    \/ ClickHint
    \/ ClickBuy
    \/ ClickTransform
    \/ ClickPopupIcon
    \/ Tick

Spec == Init /\ [][Next]_vars

\* ---------------------------------------------------------------------
\* Calls of shortest_path_with_allowed on its own
\* ---------------------------------------------------------------------
StartPool == <<"000000", "111000", "010101", "110110">>
\* Number of codes of StartPool used as start of a search.
NumSearchStarts == 2
\* Largest number of allowed operators of a search.
MaxAllowed == 3

SearchStarts == {StartPool[i] : i \in 1..NumSearchStarts} \cap FullCatalog

\* Ascending index lists, as get_allowed_transform_indices builds them.
RECURSIVE Ascending(_)
Ascending(S) ==
    IF S = {} THEN <<>>
    ELSE LET m == CHOOSE x \in S : \A y \in S : x <= y
         IN  <<m>> \o Ascending(S \ {m})

\* The operators unlocked when a run starts (FREEBIE_SHORTS).
FreeSet == {i \in 0..8 : TRANSFORMATIONS[i].short \in FREEBIE_SHORTS}
\* The lists get_allowed_transform_indices returns in a run: the free
\* operators and any of the operators the shop sells.
RunLists == {Ascending(FreeSet \cup T) : T \in SUBSET ((0..8) \ FreeSet)}
\* The lists of a search: every list of at most MaxAllowed operators, and
\* every list a run passes.
AllowedLists ==
    {Ascending(S) : S \in {T \in SUBSET (0..8) : Cardinality(T) <= MaxAllowed}}
        \cup RunLists

SearchInit ==
    /\ InitGlobals
    /\ HEXAGRAM_DATA = FullCatalog
    /\ sp_start \in SearchStarts
    /\ sp_goal \in FullCatalog
    /\ sp_allowed \in AllowedLists
    /\ sp_result = <<>>
    /\ op_idx = None
    /\ op_chain = <<>>

SearchCall ==
    /\ sp_result = <<>>
    /\ sp_result' = shortest_path_with_allowed(sp_start, sp_goal, sp_allowed)
    /\ UNCHANGED <<gameVars, opVars, sp_start, sp_goal, sp_allowed>>

SearchNext == SearchCall

SearchSpec == SearchInit /\ [][SearchNext]_vars

\* ---------------------------------------------------------------------
\* The searches on their own side by side with the game, in whose runs
\* the shop enlarges the list the search is called with
\* ---------------------------------------------------------------------
UnlockInit == SearchInit \/ Init

UnlockNext ==
    \/ sp_start # NoHex /\ SearchNext
    \/ sp_start = NoHex /\ Next

UnlockSpec == UnlockInit /\ [][UnlockNext]_vars

\* ---------------------------------------------------------------------
\* The game with a data file that does not cover every code
\* ---------------------------------------------------------------------
\* The codes a data file with two gaps lacks.
MissingCodes == {"000110", "111111"}
\* The code a data file with one gap lacks: the only code between
\* 001100 and 011010 under the operators unlocked at the start.
BridgeCodes == {"110100"}
\* The data files load_data may have read.
Catalogs == {FullCatalog \ MissingCodes, FullCatalog \ BridgeCodes, SmallCatalog}

DataInit ==
    /\ InitGlobals
    /\ HEXAGRAM_DATA \in Catalogs
    /\ sp_start = NoHex
    /\ sp_goal = NoHex
    /\ sp_allowed = <<>>
    /\ sp_result = <<>>
    /\ op_idx = None
    /\ op_chain = <<>>

DataSpec == DataInit /\ [][Next]_vars

\* ---------------------------------------------------------------------
\* The last round of a deck: a run in which 63 distinct goals have been
\* won starts its next round from the goal just won (DeckStart), and the
\* one code not yet collected (DeckLast) is drawn as the goal
\* ---------------------------------------------------------------------
DeckStart == "000000"
DeckLast == "111000"
\* The goal of the first round of that run.
DeckFirst == "001100"
\* The goal of the round before DeckStart is drawn; INVERT (operator 4)
\* takes it to DeckStart.
DeckBefore == "111111"

\* The goals random.choice draws in the run, round by round, up to the
\* 63rd distinct goal DeckStart; first_recorded tells whether the first
\* goal of the run is drawn a second time (in round 6; only then is it in
\* used_hexagrams).  Each goal after the first is one move away from the
\* goal before it under the operators the player has unlocked by then.
DeckGoals(first_recorded) ==
    IF first_recorded
    THEN <<"001100", "000110", "000011", "110000", "011000", "001100", "100001",
           "011001", "011110", "110011", "001011", "010101", "101010", "010010",
           "101101", "110110", "001001", "110001", "001110", "000111", "100011",
           "011011", "100100", "011100", "110100", "100110", "010011", "101011",
           "010100", "101100", "001101", "110010", "010110", "101001", "100101",
           "011010", "100010", "011101", "111110", "000001", "111001", "111100",
           "100111", "001111", "110111", "001000", "100000", "011111", "111011",
           "000100", "001010", "110101", "101110", "010001", "101000", "000101",
           "111010", "010111", "101111", "010000", "000010", "111101", "111111",
           "000000">>
    ELSE <<"001100", "000110", "111110", "011111", "101111", "111101", "000101",
           "101000", "010000", "000010", "111010", "010111", "010010", "101010",
           "010101", "101101", "110110", "001001", "010100", "101011", "110101",
           "001010", "010001", "101110", "010110", "101001", "110100", "001011",
           "110011", "011011", "100100", "011100", "001110", "000111", "100011",
           "110001", "011001", "100001", "011110", "100110", "010011", "101100",
           "001101", "110010", "011010", "100101", "011101", "100010", "000001",
           "111001", "100111", "111100", "001111", "110111", "001000", "000100",
           "100000", "011000", "110000", "000011", "111011", "111111", "000000">>

\* The last round but one of that run, as reset_game leaves it.  The first
\* toss gave DeckStart; the goals were drawn in the order of DeckGoals;
\* every round was won on a shortest path without a hint (4 moves in the
\* first round, 1 move in each later round, so that every win raised the
\* streak and paid the moves, the optimal bonus and the streak); before
\* the first move of a round the player bought every operator the
\* balance paid for, and owns them all (6 + 12 + 18 + 24 + 30 + 36 spent).
DeckRound(first_recorded) ==
    LET wins == IF first_recorded THEN 63 ELSE 62
        earned == IF first_recorded THEN 2145 ELSE 2080
        g == [HEXAGRAM_DATA |-> FullCatalog,
              game_started |-> TRUE, hexagram_chain |-> <<DeckBefore>>,
              goal_hexagram |-> DeckStart, locked |-> FALSE,
              round_failed |-> FALSE,
              used_hexagrams |-> (FullCatalog \ {DeckLast})
                                    \ (IF first_recorded THEN {} ELSE {DeckFirst}),
              collected_hexagrams |-> FullCatalog \ {DeckLast, DeckStart},
              TRANSFORM_UNLOCKED |-> [i \in 0..8 |-> TRUE],
              BUY_COST_CURRENT |-> BUY_START_COST + 6 * BUY_COST_STEP,
              SHOP_VISIBLE |-> TRUE,
              INSIGHT_BALANCE |-> earned - 126, HINTS_ENABLED |-> FALSE,
              HINTS_COUNT_THIS_ROUND |-> 0, RUN_HINTS_COUNT |-> 0,
              pending_change |-> None,
              WIN_SEQ_ACTIVE |-> FALSE, SEQ_OUTCOME |-> "none",
              POPUP_VISIBLE |-> FALSE, AWARDS_GRANTED |-> FALSE,
              GOAL2START |-> NoHex,
              shortest_path_length |-> None, ROUND_OPTIMAL_DIST |-> None,
              LIVE_POSSIBLE_DIST |-> None, optimal_next_buttons |-> {},
              OPTIMAL_STREAK_CURR |-> wins, OPTIMAL_STREAK_BEST |-> wins,
              RUN_TOTAL_MOVES |-> wins + 3, RUN_TOTAL_OPTIMAL |-> wins + 3,
              RUN_TOTAL_INSIGHT |-> earned, RUN_TOTAL_SPENT |-> 126,
              LAST_ROUND_INSIGHT |-> wins + 2,
              deck_popup_visible |-> FALSE, help_popup_visible |-> FALSE,
              run_goals |-> DeckGoals(first_recorded)]
    IN  recompute_live_guidance(
            recompute_static_optimal(recompute_optimal_guidance(g), DeckBefore))

\* The run in the frame in which the goal-to-start swoosh after its 63rd
\* win ends, as draw_goal2start_swoosh is called: the player has clicked
\* INVERT, the frames have resolved the move, detected the win and opened
\* the judgment popup, the player has clicked the coins button, and the
\* popups block of the frames of the swoosh has shown the popup again.
DeckPrev(first_recorded) ==
    LET moved == frame_head(click_transform(DeckRound(first_recorded), 4),
                            TRUE, FALSE)
        judged == frame_head(moved, FALSE, TRUE)
        continued == click_coins(judged, NoHex, NoHex)
    IN  frame_head(continued, FALSE, FALSE)

\* The state the swoosh leaves when it has ended and random.choice has
\* drawn DeckLast in reset_game(start_hexagram = DeckStart).
DeckInit ==
    /\ \E r \in {draw_goal2start_swoosh(DeckPrev(first_recorded), TRUE,
                                         NoHex, DeckLast) :
                     first_recorded \in BOOLEAN} :
          /\ HEXAGRAM_DATA = r.HEXAGRAM_DATA
          /\ game_started = r.game_started
          /\ hexagram_chain = r.hexagram_chain
          /\ goal_hexagram = r.goal_hexagram
          /\ locked = r.locked
          /\ round_failed = r.round_failed
          /\ used_hexagrams = r.used_hexagrams
          /\ collected_hexagrams = r.collected_hexagrams
          /\ TRANSFORM_UNLOCKED = r.TRANSFORM_UNLOCKED
          /\ BUY_COST_CURRENT = r.BUY_COST_CURRENT
          /\ SHOP_VISIBLE = r.SHOP_VISIBLE
          /\ INSIGHT_BALANCE = r.INSIGHT_BALANCE
          /\ HINTS_ENABLED = r.HINTS_ENABLED
          /\ HINTS_COUNT_THIS_ROUND = r.HINTS_COUNT_THIS_ROUND
          /\ RUN_HINTS_COUNT = r.RUN_HINTS_COUNT
          /\ pending_change = r.pending_change
          /\ WIN_SEQ_ACTIVE = r.WIN_SEQ_ACTIVE
          /\ SEQ_OUTCOME = r.SEQ_OUTCOME
          /\ POPUP_VISIBLE = r.POPUP_VISIBLE
          /\ AWARDS_GRANTED = r.AWARDS_GRANTED
          /\ GOAL2START = r.GOAL2START
          /\ shortest_path_length = r.shortest_path_length
          /\ ROUND_OPTIMAL_DIST = r.ROUND_OPTIMAL_DIST
          /\ LIVE_POSSIBLE_DIST = r.LIVE_POSSIBLE_DIST
          /\ optimal_next_buttons = r.optimal_next_buttons
          /\ OPTIMAL_STREAK_CURR = r.OPTIMAL_STREAK_CURR
          /\ OPTIMAL_STREAK_BEST = r.OPTIMAL_STREAK_BEST
          /\ RUN_TOTAL_MOVES = r.RUN_TOTAL_MOVES
          /\ RUN_TOTAL_OPTIMAL = r.RUN_TOTAL_OPTIMAL
          /\ RUN_TOTAL_INSIGHT = r.RUN_TOTAL_INSIGHT
          /\ RUN_TOTAL_SPENT = r.RUN_TOTAL_SPENT
          /\ LAST_ROUND_INSIGHT = r.LAST_ROUND_INSIGHT
          /\ deck_popup_visible = r.deck_popup_visible
          /\ help_popup_visible = r.help_popup_visible
          /\ run_goals = r.run_goals
    /\ sp_start = NoHex
    /\ sp_goal = NoHex
    /\ sp_allowed = <<>>
    /\ sp_result = <<>>
    /\ op_idx = None
    /\ op_chain = <<>>

DeckSpec == DeckInit /\ [][Next]_vars

\* ---------------------------------------------------------------------
\* Applications of one operator on its own: TRANSFORMATIONS[op_idx]["func"]
\* applied to a catalog code, then to its own result
\* ---------------------------------------------------------------------
\* Number of times the operator is applied in a row.
MaxApplications == 2

OperatorInit ==
    /\ InitGlobals
    /\ HEXAGRAM_DATA = FullCatalog
    /\ sp_start = NoHex
    /\ sp_goal = NoHex
    /\ sp_allowed = <<>>
    /\ sp_result = <<>>
    /\ op_idx \in 0..8
    /\ \E c \in FullCatalog : op_chain = <<c>>

ApplyOperator ==
    /\ Len(op_chain) - 1 < MaxApplications
    /\ op_chain' = Append(op_chain, func(op_idx, op_chain[Len(op_chain)]))
    /\ UNCHANGED <<gameVars, spVars, op_idx>>

OperatorNext == ApplyOperator

OperatorSpec == OperatorInit /\ [][OperatorNext]_vars

\* ---------------------------------------------------------------------
\* Properties
\* ---------------------------------------------------------------------
MovesMade == Len(hexagram_chain) - 1

RoundOpen == game_started /\ Len(hexagram_chain) > 0 /\ goal_hexagram # NoHex

OnGoal == RoundOpen /\ hexagram_chain[Len(hexagram_chain)] = goal_hexagram

\* A step that starts a round: the first toss, or a reset_game call after a
\* resolved round (only reset_game clears SEQ_OUTCOME).
RoundStarts ==
    \/ ~game_started /\ game_started'
    \/ SEQ_OUTCOME # "none" /\ SEQ_OUTCOME' = "none"

\* A step in which finalize_round_awards grants the awards.
FinalizeStep == ~AWARDS_GRANTED /\ AWARDS_GRANTED'

\* The optimal value of the award formula: the static optimal distance,
\* or the moves made when there is none.
AwardOptimal == IF ROUND_OPTIMAL_DIST # None THEN ROUND_OPTIMAL_DIST ELSE MovesMade

\* C1: the goals of the rounds of one run are pairwise different (the goal
\* of every round is drawn among the codes not yet drawn in the run).
C1_GoalsOfARunDiffer ==
    \A i \in 1..Len(run_goals), j \in 1..Len(run_goals) :
        i # j => run_goals[i] # run_goals[j]

\* C2 as stated: after moveLimit accepted moves off the goal the round is
\* still in progress, and a round that failed has moveLimit + 1 moves.
C2_FailureAtEleventhMove ==
    /\ (RoundOpen /\ MovesMade = transformation_limit /\ ~OnGoal)
           => (~round_failed /\ SEQ_OUTCOME = "none")
    /\ round_failed => MovesMade = transformation_limit + 1

\* C2, amended: a round fails exactly with its moveLimit-th accepted move
\* when that move does not land on the goal: below moveLimit moves the
\* round has not failed, with moveLimit moves off the goal it is locked
\* with outcome failure, and no further move is ever accepted.
C2_FailureAtLimitMove ==
    /\ MovesMade <= transformation_limit
    /\ (RoundOpen /\ MovesMade < transformation_limit)
           => (~round_failed /\ SEQ_OUTCOME # "failure")
    /\ (RoundOpen /\ MovesMade = transformation_limit /\ ~OnGoal)
           => (locked /\ round_failed /\ SEQ_OUTCOME = "failure")
    /\ (round_failed \/ SEQ_OUTCOME = "failure")
           => (locked /\ MovesMade = transformation_limit /\ ~OnGoal)

C2_Witness ==
    /\ RoundOpen /\ MovesMade = transformation_limit /\ ~OnGoal
    /\ locked /\ round_failed /\ SEQ_OUTCOME = "failure"

\* C3: whenever the moveLimit-th accepted move has landed on the goal, the
\* outcome is success and the round is not (and does not become) failed.
C3_LimitMoveOnGoalWins ==
    (OnGoal /\ MovesMade = transformation_limit)
        => (SEQ_OUTCOME = "success" /\ ~round_failed)

C3_Witness ==
    OnGoal /\ MovesMade = transformation_limit /\ SEQ_OUTCOME = "success"

\* C4: in every state the outcome is success exactly when the tip of the
\* chain is the goal, whatever catalog the data file holds and also after
\* a reset_game that found no goal to draw.
C4_SuccessIffTipIsGoal == (SEQ_OUTCOME = "success") <=> OnGoal

\* C5: the moves made never exceed moveLimit, or the round is locked.
C5_MovesWithinLimitOrLocked ==
    MovesMade <= transformation_limit \/ locked

C5_Witness ==
    RoundOpen /\ MovesMade = transformation_limit /\ locked /\ pending_change = None

\* C6: the awards of a round are finalized once: after they are granted,
\* and until the next round starts, they stay granted and neither the
\* streak counters nor the credited Insight change again (the finalizer
\* may run again, with no effect); nothing is credited outside the
\* granting step; and a resolved round is granted before the next starts.
C6_AwardsFinalizedOnce ==
    [][/\ (AWARDS_GRANTED /\ ~RoundStarts)
              => /\ AWARDS_GRANTED'
                 /\ OPTIMAL_STREAK_CURR' = OPTIMAL_STREAK_CURR
                 /\ OPTIMAL_STREAK_BEST' = OPTIMAL_STREAK_BEST
                 /\ RUN_TOTAL_INSIGHT' = RUN_TOTAL_INSIGHT
                 /\ INSIGHT_BALANCE' <= INSIGHT_BALANCE
       /\ (~AWARDS_GRANTED /\ ~AWARDS_GRANTED' /\ ~RoundStarts)
              => /\ OPTIMAL_STREAK_CURR' = OPTIMAL_STREAK_CURR
                 /\ OPTIMAL_STREAK_BEST' = OPTIMAL_STREAK_BEST
                 /\ RUN_TOTAL_INSIGHT' = RUN_TOTAL_INSIGHT
                 /\ INSIGHT_BALANCE' <= INSIGHT_BALANCE
       /\ (RoundStarts /\ SEQ_OUTCOME # "none") => AWARDS_GRANTED
      ]_vars

\* The finalizer has run a second time: the popup was closed by the coins
\* click and reopened by the next frame.
C6_Witness ==
    /\ AWARDS_GRANTED /\ POPUP_VISIBLE /\ GOAL2START # NoHex
    /\ SEQ_OUTCOME = "success" /\ INSIGHT_BALANCE > 0

\* C7: on success the granting step credits
\* max(1, max(1, 2*optimal - moves) + (1 if moves = optimal) + streak after
\* the update - hints used), which is at least 1.  The round's facts are
\* those of the frame that grants (the same frame may have resolved the
\* last move).
C7_SuccessAward ==
    [][(FinalizeStep /\ SEQ_OUTCOME' = "success")
          => LET base == Max(1, 2 * AwardOptimal' - MovesMade')
                 bonus == IF MovesMade' = AwardOptimal' THEN 1 ELSE 0
                 gained == Max(1, base + bonus + OPTIMAL_STREAK_CURR'
                                      - HINTS_COUNT_THIS_ROUND')
             IN  /\ INSIGHT_BALANCE' = INSIGHT_BALANCE + gained
                 /\ LAST_ROUND_INSIGHT' = gained
                 /\ RUN_TOTAL_INSIGHT' = RUN_TOTAL_INSIGHT + gained
                 /\ INSIGHT_BALANCE' >= INSIGHT_BALANCE + 1
      ]_vars

\* The floor decides the award: the raw sum is below 1 and 1 is credited.
C7_Witness ==
    /\ AWARDS_GRANTED /\ SEQ_OUTCOME = "success" /\ POPUP_VISIBLE
    /\ HINTS_COUNT_THIS_ROUND >= 1
    /\ Max(1, 2 * AwardOptimal - MovesMade) + OPTIMAL_STREAK_CURR
           - HINTS_COUNT_THIS_ROUND < 1
    /\ MovesMade # AwardOptimal
    /\ LAST_ROUND_INSIGHT = 1

\* C8: the granting step raises the streak by one (and the best streak to
\* at least it) after a hintless optimal success, and otherwise resets the
\* streak to 0 and keeps the best streak; the best streak is never below
\* the current one.
C8_StreakUpdate ==
    [][/\ FinalizeStep
             => IF SEQ_OUTCOME' = "success" /\ HINTS_COUNT_THIS_ROUND' = 0
                   /\ MovesMade' = AwardOptimal'
                THEN /\ OPTIMAL_STREAK_CURR' = OPTIMAL_STREAK_CURR + 1
                     /\ OPTIMAL_STREAK_BEST'
                            = Max(OPTIMAL_STREAK_BEST, OPTIMAL_STREAK_CURR')
                ELSE /\ OPTIMAL_STREAK_CURR' = 0
                     /\ OPTIMAL_STREAK_BEST' = OPTIMAL_STREAK_BEST
       /\ OPTIMAL_STREAK_BEST >= OPTIMAL_STREAK_CURR
       /\ OPTIMAL_STREAK_BEST' >= OPTIMAL_STREAK_CURR'
      ]_vars

\* A streak was reached and then broken by an optimal win that used a hint.
C8_Witness ==
    /\ AWARDS_GRANTED /\ SEQ_OUTCOME = "success"
    /\ MovesMade = AwardOptimal /\ HINTS_COUNT_THIS_ROUND >= 1
    /\ OPTIMAL_STREAK_CURR = 0 /\ OPTIMAL_STREAK_BEST >= 1

\* C9: the step that resolves a round adds the moves made to the run's
\* total of moves and the optimal value of the award formula to the run's
\* total of optimal moves.
C9_RunTotalsUseAwardOptimal ==
    [][(SEQ_OUTCOME = "none" /\ SEQ_OUTCOME' # "none")
          => /\ RUN_TOTAL_MOVES' = RUN_TOTAL_MOVES + (Len(hexagram_chain') - 1)
             /\ RUN_TOTAL_OPTIMAL' = RUN_TOTAL_OPTIMAL
                    + (IF ROUND_OPTIMAL_DIST' # None THEN ROUND_OPTIMAL_DIST'
                       ELSE Len(hexagram_chain') - 1)
      ]_vars

\* Reference distance: seen holds the codes reachable from the start in at
\* most k applications of operators of A.  The least k whose set holds the
\* goal; None when the set stops growing without it.
RECURSIVE LeastFrom(_, _, _, _)
LeastFrom(seen, goal, A, k) ==
    IF goal \in seen THEN k
    ELSE LET more == seen \cup {func(i, c) : i \in A, c \in seen}
         IN  IF more = seen THEN None ELSE LeastFrom(more, goal, A, k + 1)

MinApplications(start, goal, A) == LeastFrom({start}, goal, A, 0)

\* C10: the distance shortest_path_with_allowed returns is the least
\* number of allowed operator applications from start to goal; it is 0,
\* with no first move, when start = goal; and it is None exactly when the
\* goal cannot be reached.
C10_DistanceIsMinimum ==
    sp_result # <<>> =>
        LET A == {sp_allowed[i] : i \in 1..Len(sp_allowed)}
            least == MinApplications(sp_start, sp_goal, A)
        IN  /\ sp_result[1] = least
            /\ (sp_start = sp_goal) => sp_result = <<0, {}>>
            /\ (sp_result[1] = None) <=> (least = None)
            /\ (sp_result[1] = None) => sp_result[2] = {}

C10_Witness ==
    /\ sp_result # <<>>
    /\ Len(sp_allowed) = 2
    /\ sp_result[1] >= 4
    /\ sp_result[2] # {}

\* The allowed operators that start a shortest path from start to goal.
TrueFirstMoves(start, goal, A) ==
    LET least == MinApplications(start, goal, A)
    IN  IF least = None \/ least = 0 THEN {}
        ELSE {op \in A : MinApplications(func(op, start), goal, A) = least - 1}

\* C11: for start # goal with the goal reachable, the first-move set that
\* shortest_path_with_allowed returns is exactly the set of the allowed
\* operators op from whose result the goal is distance - 1 moves away
\* (every tie is included).
C11_FirstMovesAreAllTies ==
    (sp_result # <<>> /\ sp_start # sp_goal /\ sp_result[1] # None) =>
        LET A == {sp_allowed[i] : i \in 1..Len(sp_allowed)}
        IN  sp_result[2] = TrueFirstMoves(sp_start, sp_goal, A)

\* The operators unlocked in g.
UnlockedSet(g) == {i \in 0..8 : g.TRANSFORM_UNLOCKED[i]}

\* Distances compared with None as +infinity.
DistLeq(a, b) == b = None \/ (a # None /\ a <= b)

\* C12: allowing one more operator never increases the distance that
\* shortest_path_with_allowed returns (None counts as +infinity): for a
\* search on its own, the distance for the list enlarged by any one
\* operator is at most the distance returned; the lists searched include
\* every list a run passes, each with each of its one-operator
\* extensions, so the same holds between any two lists of a run.  In a
\* run, a buy click that unlocks an operator (the only step that unlocks
\* one, and one that leaves the chain and the goal as they are) leaves
\* LIVE_POSSIBLE_DIST at most what it was.
C12_MoreOperatorsNeverFarther ==
    /\ sp_result # <<>> =>
           LET A == {sp_allowed[i] : i \in 1..Len(sp_allowed)}
           IN  \A op \in (0..8) \ A :
                   DistLeq(shortest_path_with_allowed(sp_start, sp_goal,
                               Ascending(A \cup {op}))[1],
                           sp_result[1])
    /\ RoundOpen =>
           \A idx \in 0..8 :
               LET g == click_buy(Globals, idx)
               IN  UnlockedSet(g) # UnlockedSet(Globals)
                   => /\ UnlockedSet(g) = UnlockedSet(Globals) \cup {idx}
                      /\ g.hexagram_chain = hexagram_chain
                      /\ g.goal_hexagram = goal_hexagram
                      /\ DistLeq(g.LIVE_POSSIBLE_DIST, LIVE_POSSIBLE_DIST)

\* A round in which an operator has been bought before the first move,
\* and the goal is nearer than it is without that operator and than it
\* was when the round started.
C12_Witness ==
    /\ RoundOpen /\ ~locked /\ MovesMade = 0
    /\ LIVE_POSSIBLE_DIST # None /\ shortest_path_length # None
    /\ LIVE_POSSIBLE_DIST < shortest_path_length
    /\ \E op \in UnlockedSet(Globals) \ FreeSet :
          LET before == shortest_path_with_allowed(Tip(Globals), goal_hexagram,
                            Ascending(UnlockedSet(Globals) \ {op}))[1]
          IN  before = shortest_path_length /\ LIVE_POSSIBLE_DIST < before

\* C13: while the round is locked or a move is pending, a click on any
\* transform button changes nothing (chain, outcome, hint state, guidance,
\* balance and the pending move included), and applying an operator to a
\* locked round changes nothing.
C13_MoveIgnoredWhileLockedOrPending ==
    /\ (locked \/ pending_change # None)
           => \A idx \in 0..8 : click_transform(Globals, idx) = Globals
    /\ locked => \A idx \in 0..8 : apply_transformation(Globals, idx) = Globals

\* A move is pending on an open board: a click reaches the guard of
\* handle_transformation_click.
C13_Witness ==
    /\ pending_change # None /\ ~locked /\ game_started
    /\ ~modal_open(Globals)
    /\ \E idx \in 0..8 : TRANSFORM_UNLOCKED[idx] /\ idx # pending_change

\* C14: a click on a transform button whose operator is locked changes
\* nothing, and every code appended to the chain is the result of the
\* pending operator, which is unlocked.
C14_LockedOperatorRejected ==
    [][/\ \A idx \in 0..8 :
              ~TRANSFORM_UNLOCKED[idx] => click_transform(Globals, idx) = Globals
       /\ (Len(hexagram_chain) >= 1 /\ Len(hexagram_chain') = Len(hexagram_chain) + 1)
              => /\ pending_change # None
                 /\ TRANSFORM_UNLOCKED[pending_change]
                 /\ hexagram_chain'[Len(hexagram_chain')]
                        = func(pending_change, hexagram_chain[Len(hexagram_chain)])
      ]_vars

\* A move was applied in a round in which a locked button can be clicked.
C14_Witness ==
    /\ RoundOpen /\ ~locked /\ ~modal_open(Globals) /\ pending_change = None
    /\ MovesMade >= 1
    /\ \E idx \in 0..8 : ~TRANSFORM_UNLOCKED[idx]

\* The operators whose result at the chain tip the catalog lacks.
MissOps ==
    IF Len(hexagram_chain) = 0 THEN {}
    ELSE {idx \in 0..8 : func(idx, hexagram_chain[Len(hexagram_chain)]) \notin HEXAGRAM_DATA}

\* C15: when the code an operator produces from the chain tip is not in
\* the catalog, apply_transformation changes nothing, and the frame that
\* resolves such a pending move only clears the pending move: the chain,
\* the armed hint, the live guidance (distance and optimal buttons), the
\* locked flag and the outcome stay as they were.
C15_CatalogMissRejected ==
    /\ \A idx \in MissOps : apply_transformation(Globals, idx) = Globals
    /\ (pending_change # None /\ pending_change \in MissOps) =>
           /\ frame_pending(Globals, TRUE) = [Globals EXCEPT !.pending_change = None]
           /\ LET g == frame_head(Globals, TRUE, FALSE)
              IN  /\ g.hexagram_chain = hexagram_chain
                  /\ g.HINTS_ENABLED = HINTS_ENABLED
                  /\ g.LIVE_POSSIBLE_DIST = LIVE_POSSIBLE_DIST
                  /\ g.optimal_next_buttons = optimal_next_buttons
                  /\ g.locked = locked
                  /\ g.round_failed = round_failed
                  /\ g.SEQ_OUTCOME = SEQ_OUTCOME

\* An unlocked operator that misses the catalog is pending in an open
\* round with an armed hint and live guidance.
C15_Witness ==
    /\ RoundOpen /\ ~locked /\ HINTS_ENABLED
    /\ pending_change # None /\ pending_change \in MissOps
    /\ TRANSFORM_UNLOCKED[pending_change]
    /\ LIVE_POSSIBLE_DIST # None /\ optimal_next_buttons # {}

\* C16: every accepted move clears an armed hint: after every step that
\* appends a code to the chain of the round, HINTS_ENABLED is false,
\* whether or not the operator applied was one of the optimal buttons.
C16_AcceptedMoveClearsHint ==
    [][(Len(hexagram_chain) >= 1 /\ Len(hexagram_chain') = Len(hexagram_chain) + 1)
          => /\ pending_change # None
             /\ hexagram_chain'[Len(hexagram_chain')] =
                    func(pending_change, hexagram_chain[Len(hexagram_chain)])
             /\ ~HINTS_ENABLED'
      ]_vars

\* A move outside the hinted optimal set is pending while a hint is armed.
C16_Witness ==
    /\ RoundOpen /\ ~locked /\ HINTS_ENABLED
    /\ pending_change # None /\ pending_change \notin optimal_next_buttons
    /\ pending_change \notin MissOps
    /\ optimal_next_buttons # {}

\* The round has been resolved (won or failed) and not yet restarted.
RoundResolved == RoundOpen /\ locked

\* The state a hint purchase may change.
HintState(g) ==
    <<g.INSIGHT_BALANCE, g.RUN_TOTAL_SPENT, g.HINTS_ENABLED,
      g.HINTS_COUNT_THIS_ROUND, g.RUN_HINTS_COUNT>>

\* C17: a click on the hint icon changes neither the balance, the amount
\* spent, the armed flag nor the round and run hint counters when a hint
\* is already armed, when the balance is below the hint cost, when no
\* round has been started, or when the round is already won or failed.
C17_HintRejectedOutsideRound ==
    (HINTS_ENABLED \/ INSIGHT_BALANCE < HINT_COST_IP \/ ~game_started \/ RoundResolved)
        => HintState(click_hint(Globals)) = HintState(Globals)

\* C18: a hint purchase that succeeds takes exactly HINT_COST_IP from the
\* balance, arms the hint and adds one to the round and to the run hint
\* counter, and leaves every other global as it was (the amount spent
\* grows by the cost). A click in an open, unresolved round with no
\* popup, no armed hint and enough balance is such a purchase, and every
\* step that arms the hint has exactly this effect.
C18_HintPurchaseEffect ==
    [][/\ (RoundOpen /\ ~locked /\ ~modal_open(Globals) /\ ~HINTS_ENABLED
           /\ INSIGHT_BALANCE >= HINT_COST_IP)
          => click_hint(Globals) =
                [Globals EXCEPT !.INSIGHT_BALANCE = @ - 1,
                                !.RUN_TOTAL_SPENT = @ + 1,
                                !.HINTS_ENABLED = TRUE,
                                !.HINTS_COUNT_THIS_ROUND = @ + 1,
                                !.RUN_HINTS_COUNT = @ + 1]
       /\ (~HINTS_ENABLED /\ HINTS_ENABLED')
          => /\ INSIGHT_BALANCE' = INSIGHT_BALANCE - 1
             /\ HINTS_COUNT_THIS_ROUND' = HINTS_COUNT_THIS_ROUND + 1
             /\ RUN_HINTS_COUNT' = RUN_HINTS_COUNT + 1
             /\ UNCHANGED <<hexagram_chain, goal_hexagram, TRANSFORM_UNLOCKED,
                            BUY_COST_CURRENT, shortest_path_length,
                            ROUND_OPTIMAL_DIST, LIVE_POSSIBLE_DIST,
                            optimal_next_buttons, locked, pending_change>>
      ]_vars

\* A hint has been bought in an open round after at least one move.
C18_Witness ==
    /\ RoundOpen /\ ~locked /\ HINTS_ENABLED
    /\ HINTS_COUNT_THIS_ROUND = 1 /\ RUN_HINTS_COUNT >= 1
    /\ MovesMade >= 1

\* The state an unlock purchase may change.
BuyState(g) ==
    <<g.INSIGHT_BALANCE, g.RUN_TOTAL_SPENT, g.TRANSFORM_UNLOCKED,
      g.BUY_COST_CURRENT, g.LIVE_POSSIBLE_DIST, g.optimal_next_buttons,
      g.ROUND_OPTIMAL_DIST, g.shortest_path_length>>

\* C19: a click on the buy pill of an operator changes neither the
\* balance, the unlocked set, the unlock cost nor the guidance when the
\* operator is already unlocked, when the balance is below the unlock
\* cost, when a popup is open, or when locked is set.
C19_UnlockRejected ==
    \A idx \in 0..8 :
        (TRANSFORM_UNLOCKED[idx] \/ INSIGHT_BALANCE < BUY_COST_CURRENT
            \/ modal_open(Globals) \/ locked)
        => BuyState(click_buy(Globals, idx)) = BuyState(Globals)

\* C20: an unlock purchase that succeeds takes the current unlock cost
\* from the balance, unlocks exactly the operator bought, raises the cost
\* by BUY_COST_STEP, and leaves LIVE_POSSIBLE_DIST and ROUND_OPTIMAL_DIST
\* both equal to the least number of moves from the chain tip to the goal
\* under the operators then unlocked. This holds for the buy click on
\* every operator it unlocks, and for every step that unlocks one.
C20_UnlockPurchaseEffect ==
    [][/\ \A idx \in 0..8 :
             LET g == click_buy(Globals, idx)
             IN  (RoundOpen /\ ~TRANSFORM_UNLOCKED[idx] /\ g.TRANSFORM_UNLOCKED[idx])
                 => /\ g.INSIGHT_BALANCE = INSIGHT_BALANCE - BUY_COST_CURRENT
                    /\ g.INSIGHT_BALANCE >= 0
                    /\ g.TRANSFORM_UNLOCKED = [TRANSFORM_UNLOCKED EXCEPT ![idx] = TRUE]
                    /\ g.BUY_COST_CURRENT = BUY_COST_CURRENT + BUY_COST_STEP
                    /\ g.LIVE_POSSIBLE_DIST =
                           MinApplications(Tip(g), goal_hexagram, UnlockedSet(g))
                    /\ g.ROUND_OPTIMAL_DIST = g.LIVE_POSSIBLE_DIST
       /\ (RoundOpen /\ UnlockedSet(Globals) # UnlockedSet(Globals)'
              /\ UnlockedSet(Globals) \subseteq UnlockedSet(Globals)')
          => /\ Cardinality(UnlockedSet(Globals)') = Cardinality(UnlockedSet(Globals)) + 1
             /\ INSIGHT_BALANCE' = INSIGHT_BALANCE - BUY_COST_CURRENT
             /\ BUY_COST_CURRENT' = BUY_COST_CURRENT + BUY_COST_STEP
             /\ LIVE_POSSIBLE_DIST' =
                    MinApplications(hexagram_chain'[Len(hexagram_chain')],
                                    goal_hexagram', UnlockedSet(Globals)')
             /\ ROUND_OPTIMAL_DIST' = LIVE_POSSIBLE_DIST'
      ]_vars

\* An operator has been bought in an open round, and the purchase has
\* brought the goal closer than it was when the round started.
C20_Witness ==
    /\ RoundOpen /\ ~locked /\ BUY_COST_CURRENT > BUY_START_COST
    /\ ROUND_OPTIMAL_DIST # None /\ shortest_path_length # None
    /\ ROUND_OPTIMAL_DIST < shortest_path_length
    /\ LIVE_POSSIBLE_DIST = ROUND_OPTIMAL_DIST

\* C21: in an open, unresolved round with no popup open, a click on the
\* buy pill of a locked operator is accepted whenever the balance covers
\* the unlock cost, also after moves have been made, and it then leaves
\* ROUND_OPTIMAL_DIST equal to the least number of moves from the chain
\* tip to the goal.
C21_UnlockAcceptedMidRound ==
    \A idx \in 0..8 :
        (RoundOpen /\ ~locked /\ ~modal_open(Globals)
            /\ ~TRANSFORM_UNLOCKED[idx] /\ INSIGHT_BALANCE >= BUY_COST_CURRENT)
        => LET g == click_buy(Globals, idx)
           IN  /\ g.TRANSFORM_UNLOCKED[idx]
               /\ g.ROUND_OPTIMAL_DIST =
                      MinApplications(Tip(g), goal_hexagram, UnlockedSet(g))

\* C22: in every state BUY_COST_CURRENT is BUY_START_COST plus
\* BUY_COST_STEP for each operator bought in the run, that is 6 + 6 *
\* (number of unlocked operators - 3); three purchases in a row, made
\* with a balance that covers them where the shop is open, leave it at
\* 24; and every full reset (a coins click that calls reset_game) puts
\* it back to BUY_START_COST with the three free operators unlocked.
C22_UnlockCostEscalation ==
    [][/\ BUY_COST_CURRENT' = 6 + 6 * (Cardinality(UnlockedSet(Globals)') - 3)
       /\ BUY_COST_CURRENT = 6 + 6 * (Cardinality(UnlockedSet(Globals)) - 3)
       /\ (RoundOpen /\ SHOP_VISIBLE /\ ~modal_open(Globals)
              /\ UnlockedSet(Globals) = {0, 5, 7})
              => LET rich == [Globals EXCEPT !.INSIGHT_BALANCE = 36]
                     g == click_buy(click_buy(click_buy(rich, 1), 2), 3)
                 IN  /\ UnlockedSet(g) = {0, 1, 2, 3, 5, 7}
                     /\ g.BUY_COST_CURRENT = 24
                     /\ g.INSIGHT_BALANCE = 0
       /\ (coins_resets(Globals) /\ RoundStarts)
              => /\ BUY_COST_CURRENT' = BUY_START_COST
                 /\ UnlockedSet(Globals)' = {0, 5, 7}
      ]_vars

\* A round has failed in a run in which an operator was bought: the cost
\* stands at 12 and the next coins click is a full reset.
C22_Witness ==
    /\ BUY_COST_CURRENT = 12 /\ Cardinality(UnlockedSet(Globals)) = 4
    /\ round_failed /\ POPUP_VISIBLE /\ coins_resets(Globals)

\* A step that starts a new run: reset_game with full_reset (run_goals is
\* emptied by a full reset only).
FullResetStep == RoundStarts /\ Len(run_goals') <= 1

\* C23: a step that appends the goal code to the chain, at any move count
\* up to transformation_limit, leaves the round locked with SEQ_OUTCOME
\* success and the goal in collected_hexagrams; a step adds nothing but
\* the goal of the round to collected_hexagrams, removes nothing from it
\* unless it starts a new run, and the set never holds more than 64 codes.
C23_GoalMoveWinsAndCollects ==
    [][/\ (/\ Len(hexagram_chain) >= 1
           /\ Len(hexagram_chain') = Len(hexagram_chain) + 1
           /\ hexagram_chain'[Len(hexagram_chain')] = goal_hexagram
           /\ Len(hexagram_chain') - 1 <= transformation_limit)
          => /\ locked' /\ SEQ_OUTCOME' = "success" /\ ~round_failed'
             /\ goal_hexagram' = goal_hexagram
             /\ goal_hexagram \in collected_hexagrams'
       /\ collected_hexagrams' \ collected_hexagrams \subseteq {goal_hexagram}
       /\ (collected_hexagrams \subseteq collected_hexagrams') \/ FullResetStep
       /\ Cardinality(collected_hexagrams') <= DECK_SIZE
      ]_vars

\* A second goal of a run has been won and collected.
C23_Witness ==
    /\ OnGoal /\ locked /\ SEQ_OUTCOME = "success"
    /\ goal_hexagram \in collected_hexagrams
    /\ Cardinality(collected_hexagrams) >= 2

\* The deck is complete: 64 codes are collected.
DeckComplete == Cardinality(collected_hexagrams) >= DECK_SIZE

\* C24: once all 64 codes are collected the run is not continued.  In
\* every state with a complete deck the round is locked and won and no
\* goal-to-start continuation (the only caller of reset_game with
\* full_reset = False) is pending; a step from such a state either is a
\* full reset, which empties the collection, or draws no goal: the deck
\* stays complete, the round stays locked and won, no continuation
\* begins, and goal_hexagram, run_goals and the chain are as before.
C24_CompleteDeckIsNotContinued ==
    [][DeckComplete =>
          /\ locked /\ SEQ_OUTCOME = "success" /\ GOAL2START = NoHex
          /\ IF RoundStarts
             THEN FullResetStep /\ collected_hexagrams' = {}
             ELSE /\ DeckComplete' /\ locked' /\ SEQ_OUTCOME' = "success"
                  /\ GOAL2START' = NoHex
                  /\ goal_hexagram' = goal_hexagram
                  /\ run_goals' = run_goals
                  /\ hexagram_chain' = hexagram_chain
      ]_vars

\* The judgment popup of the round that completed the deck, in a run
\* whose used_hexagrams still lacks a catalog code other than the goal.
C24_Witness ==
    /\ DeckComplete /\ OnGoal /\ locked /\ POPUP_VISIBLE /\ AWARDS_GRANTED
    /\ (FullCatalog \ used_hexagrams) \ {goal_hexagram} # {}

\* C25: a step that starts the first round of a run leaves the balance 0,
\* the collection empty, exactly SHIFT, INVERT v and MIRROR ^ unlocked,
\* the unlock cost at BUY_START_COST, and both streak counters, the run
\* totals and the hint counters 0; and the round started from the
\* judgment popup of a failed round is always the first round of a run.
C25_FullResetDiscardsRun ==
    [][/\ FullResetStep =>
             /\ INSIGHT_BALANCE' = 0
             /\ collected_hexagrams' = {}
             /\ \A i \in 0..8 : TRANSFORM_UNLOCKED'[i] <=> i \in {0, 5, 7}
             /\ BUY_COST_CURRENT' = 6
             /\ OPTIMAL_STREAK_CURR' = 0 /\ OPTIMAL_STREAK_BEST' = 0
             /\ RUN_TOTAL_MOVES' = 0 /\ RUN_TOTAL_OPTIMAL' = 0
             /\ RUN_TOTAL_INSIGHT' = 0 /\ RUN_TOTAL_SPENT' = 0
             /\ RUN_HINTS_COUNT' = 0 /\ HINTS_COUNT_THIS_ROUND' = 0
       /\ (round_failed /\ RoundStarts) => FullResetStep
      ]_vars

\* The judgment popup of a failed round of a run that has collected a
\* code, holds Insight, has bought a hint and has a best streak.
C25_Witness ==
    /\ round_failed /\ POPUP_VISIBLE /\ SEQ_OUTCOME = "failure"
    /\ collected_hexagrams # {} /\ INSIGHT_BALANCE > 0
    /\ RUN_HINTS_COUNT > 0 /\ OPTIMAL_STREAK_BEST > 0
    /\ RUN_TOTAL_MOVES > 0 /\ RUN_TOTAL_SPENT > 0

\* Indices in TRANSFORMATIONS of FLIP, INVERT, INVERT v and FLIP v.
SelfInverse == {1, 4, 5, 6}

\* C26: FLIP, INVERT, INVERT v and FLIP v are self-inverse: applied to
\* any of the 64 codes and then to its own result, each of them returns
\* the code it started from.
C26_SelfInverseOperators ==
    op_idx \in SelfInverse =>
        \A k \in 3..Len(op_chain) : op_chain[k] = op_chain[k - 2]

\* FLIP v has changed a code and its second application has restored it.
C26_Witness ==
    /\ op_idx = 6 /\ Len(op_chain) = 3
    /\ op_chain[2] # op_chain[1] /\ op_chain[3] = op_chain[1]

\* The operator TRANSFORMATIONS[idx] is not self-inverse: some catalog
\* code is not restored by applying it twice.
NonInvolution(idx) == \E c \in FullCatalog : func(idx, func(idx, c)) # c

\* C27 as stated: SHIFT, SWAP, UNHIDE, MIRROR ^ and COPY ^ are each a
\* non-involution.
C27_FiveNonInvolutions ==
    op_idx \in {0, 2, 3, 7, 8} => NonInvolution(op_idx)

\* C27: SHIFT, UNHIDE, MIRROR ^ and COPY ^ are each a non-involution
\* (some code is not restored by the second application), while SWAP
\* applied twice restores every code.
C27_NonInvolutions ==
    /\ op_idx \in {0, 3, 7, 8} => NonInvolution(op_idx)
    /\ op_idx = 2 => \A k \in 3..Len(op_chain) : op_chain[k] = op_chain[k - 2]

\* SHIFT applied twice has not restored the code, and SWAP has.
C27_Witness ==
    /\ Len(op_chain) = 3
    /\ \/ op_idx = 0 /\ op_chain[3] # op_chain[1]
       \/ op_idx = 2 /\ op_chain[2] # op_chain[1] /\ op_chain[3] = op_chain[1]

\* Bit i of a code, bit 0 leftmost; bits lo..hi of a code, both included.
Bit(code, i) == SubSeq(code, i + 1, i + 1)
Bits(code, lo, hi) == SubSeq(code, lo + 1, hi + 1)

\* A string of six characters 0 / 1.
IsCode(code) == Len(code) = 6 /\ \A i \in 0..5 : Bit(code, i) \in BitChars

\* The result r of every operator but UNHIDE on the code c, bit by bit.
Described(idx, c, r) ==
    CASE idx = 0 -> /\ Bit(r, 0) = Bit(c, 5)
                    /\ \A i \in 1..5 : Bit(r, i) = Bit(c, i - 1)
      [] idx = 1 -> \A i \in 0..5 : Bit(r, i) = Bit(c, 5 - i)
      [] idx = 2 -> \A i \in 0..2 : Bit(r, i) = Bit(c, i + 3) /\ Bit(r, i + 3) = Bit(c, i)
      [] idx = 4 -> \A i \in 0..5 : Bit(r, i) # Bit(c, i)
      [] idx = 5 -> \A i \in 0..2 : Bit(r, i) # Bit(c, i) /\ Bit(r, i + 3) = Bit(c, i + 3)
      [] idx = 6 -> \A i \in 0..2 : Bit(r, i) = Bit(c, 2 - i) /\ Bit(r, i + 3) = Bit(c, i + 3)
      [] idx = 7 -> \A i \in 0..2 : Bit(r, i) = Bit(c, i) /\ Bit(r, i + 3) = Bit(c, 2 - i)
      [] idx = 8 -> \A i \in 0..2 : Bit(r, i) = Bit(c, i) /\ Bit(r, i + 3) = Bit(c, i)

\* UNHIDE: bits 1-3 become the lower trigram and bits 2-4 the upper one.
UnhideNucleus(c, r) ==
    \A i \in 0..2 : Bit(r, i) = Bit(c, i + 1) /\ Bit(r, i + 3) = Bit(c, i + 2)

\* C28 as stated: every application of an operator to a code yields a
\* code, the one its description gives, UNHIDE taking bits 1-4 and 2-5.
C28_OperatorsAsStated ==
    \A k \in 2..Len(op_chain) :
        /\ IsCode(op_chain[k])
        /\ IF op_idx = 3 THEN op_chain[k] = Bits(op_chain[k - 1], 1, 4)
                                              \o Bits(op_chain[k - 1], 2, 5)
                         ELSE Described(op_idx, op_chain[k - 1], op_chain[k])

\* C28: every application of an operator to a code yields a code, the
\* one its description gives, UNHIDE taking bits 1-3 as the lower trigram
\* and bits 2-4 as the upper trigram.
C28_OperatorsMatchDefinitions ==
    \A k \in 2..Len(op_chain) :
        /\ IsCode(op_chain[k])
        /\ IF op_idx = 3 THEN UnhideNucleus(op_chain[k - 1], op_chain[k])
                         ELSE Described(op_idx, op_chain[k - 1], op_chain[k])

\* UNHIDE has been applied to a code whose bits 1 and 4 differ from its
\* bits 0 and 5, and INVERT v to some code.
C28_Witness ==
    /\ Len(op_chain) >= 2
    /\ \/ /\ op_idx = 3
          /\ Bit(op_chain[1], 0) # Bit(op_chain[1], 1)
          /\ Bit(op_chain[1], 4) # Bit(op_chain[1], 5)
          /\ op_chain[2] # op_chain[1]
       \/ op_idx = 5 /\ op_chain[2] # op_chain[1]

\* C29: INSIGHT_BALANCE is never negative, whatever rounds are started,
\* moves applied, hints and operators bought and rounds resolved.
C29_BalanceNonNegative == INSIGHT_BALANCE >= 0

\* The balance has been spent down to 0 and the hint icon can be clicked:
\* a further hint is not affordable.
C29_Witness ==
    /\ INSIGHT_BALANCE = 0 /\ RUN_TOTAL_SPENT > 0
    /\ game_started /\ ~modal_open(Globals) /\ ~HINTS_ENABLED
    /\ HINTS_COUNT_THIS_ROUND < MaxHintsPerRound

\* C30: a step that starts a round (a reset that leaves the board
\* unlocked), the first round of a run or a follow-on round, leaves a
\* chain that holds the start code only and a goal of the catalog that
\* differs from the start code.
C30_GoalDiffersFromStart ==
    [][(RoundStarts /\ ~locked') =>
          /\ Len(hexagram_chain') = 1
          /\ goal_hexagram' \in HEXAGRAM_DATA
          /\ goal_hexagram' # hexagram_chain'[1]
          /\ goal_hexagram' = run_goals'[Len(run_goals')]
      ]_vars

\* A follow-on round has just started from the goal of the round before,
\* in a catalog whose every other code is a candidate goal.
C30_Witness ==
    /\ Len(run_goals) >= 2 /\ Len(hexagram_chain) = 1
    /\ ~locked /\ SEQ_OUTCOME = "none"
    /\ hexagram_chain[1] = run_goals[Len(run_goals) - 1]
    /\ goal_hexagram # hexagram_chain[1]
    /\ HEXAGRAM_DATA = SmallCatalog

\* C31: in every state of a started round LIVE_POSSIBLE_DIST and
\* optimal_next_buttons are what shortest_path_with_allowed returns for
\* the tip of the chain, the goal and the operators unlocked now.
C31_LiveGuidanceFresh ==
    (game_started /\ Len(hexagram_chain) > 0 /\ goal_hexagram # NoHex) =>
        LET r == shortest_path_with_allowed(Tip(Globals), goal_hexagram,
                     get_allowed_transform_indices(Globals))
        IN  /\ LIVE_POSSIBLE_DIST = r[1]
            /\ optimal_next_buttons = r[2]

\* An operator bought before the first move of a round has shortened the
\* live distance below the one computed when the round started.
C31_Witness ==
    /\ RoundOpen /\ MovesMade = 0
    /\ Cardinality(UnlockedSet(Globals)) > 3
    /\ LIVE_POSSIBLE_DIST # None /\ shortest_path_length # None
    /\ LIVE_POSSIBLE_DIST < shortest_path_length

\* C32: a step that starts a round sets ROUND_OPTIMAL_DIST to the distance
\* shortest_path_with_allowed finds from the start code to the goal under
\* the operators unlocked then; afterwards only a step that unlocks an
\* operator changes it: moves, rejected clicks and hint purchases do not.
C32_StaticOptimalChanges ==
    [][/\ (RoundStarts /\ ~locked') =>
             ROUND_OPTIMAL_DIST' =
                 shortest_path_with_allowed(hexagram_chain'[1], goal_hexagram',
                     get_allowed_transform_indices(Globals)')[1]
       /\ ROUND_OPTIMAL_DIST' # ROUND_OPTIMAL_DIST =>
             \/ RoundStarts
             \/ /\ UnlockedSet(Globals)' # UnlockedSet(Globals)
                /\ hexagram_chain' = hexagram_chain
                /\ HINTS_COUNT_THIS_ROUND' = HINTS_COUNT_THIS_ROUND
      ]_vars

\* A hint has been bought and moves have been made in an open round, and
\* the static distance still is the one from the start code.
C32_Witness ==
    /\ RoundOpen /\ MovesMade >= 2 /\ HINTS_COUNT_THIS_ROUND > 0
    /\ ROUND_OPTIMAL_DIST # None /\ LIVE_POSSIBLE_DIST # None
    /\ LIVE_POSSIBLE_DIST < ROUND_OPTIMAL_DIST

\* C33: a move executes atomically: from the click that issues it
\* (pending_change set) until the frame that applies it, no other
\* command takes effect: while the same move stays pending the balance,
\* the hint state, the unlocked operators, the chain, the goal and the
\* lock do not change.
C33_MoveExecutesAtomically ==
    [][(pending_change # None /\ pending_change' = pending_change) =>
          /\ INSIGHT_BALANCE' = INSIGHT_BALANCE
          /\ HINTS_ENABLED' = HINTS_ENABLED
          /\ HINTS_COUNT_THIS_ROUND' = HINTS_COUNT_THIS_ROUND
          /\ TRANSFORM_UNLOCKED' = TRANSFORM_UNLOCKED
          /\ hexagram_chain' = hexagram_chain
          /\ goal_hexagram' = goal_hexagram
          /\ locked' = locked
      ]_vars

\* The codes one application of an operator of the set ops yields from code.
Successors(code, ops) == {func(op, code) : op \in ops}

\* C34: in every state of a started game the chain is well formed: in a
\* round that has started (the first code is not the goal) it begins with
\* the start code of the round (the goal of the round before in a
\* follow-on round, a generated code in the first round of a run),
\* every entry is a code of the catalog, and every entry after the first
\* is the result of one operator unlocked in the round applied to the
\* entry before it.
C34_ChainWellFormed ==
    (game_started /\ Len(run_goals) >= 1) =>
        /\ Len(hexagram_chain) >= 1
        /\ hexagram_chain[1] # goal_hexagram =>
              IF Len(run_goals) >= 2
              THEN hexagram_chain[1] = run_goals[Len(run_goals) - 1]
              ELSE hexagram_chain[1] \in StartCodes
        /\ \A i \in 1..Len(hexagram_chain) : hexagram_chain[i] \in HEXAGRAM_DATA
        /\ \A i \in 2..Len(hexagram_chain) :
              hexagram_chain[i] \in Successors(hexagram_chain[i - 1], UnlockedSet(Globals))

\* A follow-on round in which a bought operator has made a move no free
\* operator could have made.
C34_Witness ==
    /\ Len(run_goals) >= 2 /\ Len(hexagram_chain) >= 2
    /\ \E i \in 2..Len(hexagram_chain) :
          hexagram_chain[i] \notin Successors(hexagram_chain[i - 1], {0, 5, 7})

\* C35: in every state the balance is the Insight earned in the run less
\* the Insight spent in the run; a step raises RUN_TOTAL_INSIGHT only by
\* granting the awards of a round, and raises RUN_TOTAL_SPENT only by
\* selling a hint or unlocking an operator.
C35_InsightConserved ==
    [][/\ INSIGHT_BALANCE = RUN_TOTAL_INSIGHT - RUN_TOTAL_SPENT
       /\ INSIGHT_BALANCE' = RUN_TOTAL_INSIGHT' - RUN_TOTAL_SPENT'
       /\ RUN_TOTAL_INSIGHT' > RUN_TOTAL_INSIGHT => FinalizeStep
       /\ RUN_TOTAL_SPENT' > RUN_TOTAL_SPENT =>
             \/ RUN_HINTS_COUNT' = RUN_HINTS_COUNT + 1
             \/ UnlockedSet(Globals)' # UnlockedSet(Globals)
      ]_vars

\* Insight has been earned in two rounds and spent on a hint and on an
\* operator, and some is left.
C35_Witness ==
    /\ INSIGHT_BALANCE > 0 /\ RUN_HINTS_COUNT > 0
    /\ Cardinality(UnlockedSet(Globals)) > 3
    /\ RUN_TOTAL_SPENT > BUY_START_COST
    /\ RUN_TOTAL_INSIGHT > INSIGHT_BALANCE

\* A step that appends a code to the chain of the round.
MoveStep == Len(hexagram_chain) >= 1 /\ Len(hexagram_chain') = Len(hexagram_chain) + 1

\* C36: the chain never holds more than transformation_limit + 1 codes: a
\* move is appended only to the chain of an unlocked round with fewer than
\* transformation_limit moves; the step that appends the
\* transformation_limit-th move off the goal leaves the round locked with
\* outcome failure; and with transformation_limit moves made no move is
\* pending or becomes pending.
C36_ChainWithinLimit ==
    [][/\ Len(hexagram_chain') - 1 <= transformation_limit
       /\ MoveStep => (~locked /\ MovesMade < transformation_limit)
       /\ (/\ MoveStep
           /\ Len(hexagram_chain') - 1 = transformation_limit
           /\ hexagram_chain'[Len(hexagram_chain')] # goal_hexagram)
             => (locked' /\ round_failed' /\ SEQ_OUTCOME' = "failure")
       /\ MovesMade = transformation_limit =>
             (pending_change = None /\ pending_change' = None)
      ]_vars

\* The judgment popup of a round that failed with its
\* transformation_limit-th move.
C36_Witness ==
    /\ MovesMade = transformation_limit /\ ~OnGoal
    /\ locked /\ SEQ_OUTCOME = "failure" /\ POPUP_VISIBLE /\ AWARDS_GRANTED

\* C37: a resolved round is absorbing: from a state whose outcome is
\* success or failure every step either starts the next round or leaves
\* the outcome, the chain and the goal as they are and the round locked,
\* whatever is clicked (transform buttons, hint icon, buy pills).
C37_ResolutionAbsorbing ==
    [][SEQ_OUTCOME # "none" =>
          \/ RoundStarts
          \/ /\ SEQ_OUTCOME' = SEQ_OUTCOME
             /\ locked /\ locked'
             /\ hexagram_chain' = hexagram_chain
             /\ goal_hexagram' = goal_hexagram
             /\ pending_change' = None
             /\ TRANSFORM_UNLOCKED' = TRANSFORM_UNLOCKED
      ]_vars

\* A hint has been bought in a round already won, before its judgment
\* popup opened.
C37_Witness ==
    /\ SEQ_OUTCOME = "success" /\ OnGoal /\ locked
    /\ HINTS_ENABLED /\ ~POPUP_VISIBLE

\* The state an exhausted reset_game leaves: the chain holds the start
\* code only, which is the goal of the round before; no goal was drawn.
ExhaustedRun ==
    /\ game_started /\ Len(hexagram_chain) = 1
    /\ hexagram_chain[1] = goal_hexagram

\* C38: an exhausted reset has no gameplay effect: a step that leaves the
\* run exhausted leaves the outcome none, and from the exhausted state
\* every step either starts a new run or leaves the outcome none and the
\* balance, the Insight earned, the move totals, the streak counters and
\* the collection unchanged.
C38_ExhaustedRunIsInert ==
    [][/\ (RoundStarts /\ ExhaustedRun') => SEQ_OUTCOME' = "none"
       /\ (ExhaustedRun /\ SEQ_OUTCOME = "none") =>
             \/ FullResetStep
             \/ /\ SEQ_OUTCOME' = "none"
                /\ INSIGHT_BALANCE' = INSIGHT_BALANCE
                /\ RUN_TOTAL_INSIGHT' = RUN_TOTAL_INSIGHT
                /\ RUN_TOTAL_MOVES' = RUN_TOTAL_MOVES
                /\ RUN_TOTAL_OPTIMAL' = RUN_TOTAL_OPTIMAL
                /\ OPTIMAL_STREAK_CURR' = OPTIMAL_STREAK_CURR
                /\ OPTIMAL_STREAK_BEST' = OPTIMAL_STREAK_BEST
                /\ collected_hexagrams' = collected_hexagrams
      ]_vars

\* The codes the chain tip can hold after exactly n moves that
\* apply_transformation accepts, starting from a tip in codes: every move
\* applies an operator of A and its result is in the catalog data.
RECURSIVE AcceptedAfter(_, _, _, _)
AcceptedAfter(codes, A, data, n) ==
    IF n = 0 THEN codes
    ELSE AcceptedAfter({func(i, c) : i \in A, c \in codes} \cap data,
                       A, data, n - 1)

\* C39: guidance agrees with the moves apply_transformation accepts, for
\* any catalog: whenever shortest_path_with_allowed reports a distance d
\* from the chain tip to the goal under the unlocked operators, d moves
\* that apply_transformation accepts (every code they produce is in the
\* catalog) can take the tip to the goal.
C39_GuidanceWithinCatalog ==
    RoundOpen =>
        LET r == shortest_path_with_allowed(Tip(Globals), goal_hexagram,
                     get_allowed_transform_indices(Globals))
        IN  r[1] # None =>
                goal_hexagram \in AcceptedAfter({Tip(Globals)}, UnlockedSet(Globals),
                                                HEXAGRAM_DATA, r[1])

\* C40: in every successfully resolved round the static optimal distance
\* is set and is at most the moves made, and it equals the moves made
\* exactly when the chain is a shortest path from the start code under the
\* operators unlocked at resolution.
C40_StaticOptimalBound ==
    (RoundOpen /\ SEQ_OUTCOME = "success") =>
        /\ ROUND_OPTIMAL_DIST # None
        /\ ROUND_OPTIMAL_DIST <= MovesMade
        /\ (MovesMade = ROUND_OPTIMAL_DIST) <=>
               (MovesMade = MinApplications(hexagram_chain[1], goal_hexagram,
                                            UnlockedSet(Globals)))

====
